---------------------------- MODULE Spec2Model ----------------------------
(***************************************************************************)
(* The concurrent scrape orchestrator of the WordPress product scraper:   *)
(* ScraperService.scrape_all and the work units it fans out over a        *)
(* ThreadPoolExecutor (src/app/services/scraper_service.py).              *)
(*                                                                         *)
(* One coordinating thread (mainpc) logs in, walks the paginated listing, *)
(* submits one work unit per link and consumes as_completed; the pool's   *)
(* worker threads (pc[t]) run scrape_product_worker.  request_stop is the *)
(* SIGINT handler of src/main.py and may run between any two steps.       *)
(*                                                                         *)
(* Environment: the browser driver and the remote site are collaborators. *)
(* Every call that the code guards with try/except may fail here.  quit() *)
(* ends the session (selenium stops the driver service even when the quit *)
(* command itself raises).  The executor is CPython's ThreadPoolExecutor: *)
(* a FIFO work queue, threads spawned on submit while fewer than          *)
(* max_workers exist and none is idle, shutdown(cancel_futures=True)      *)
(* draining the queue item by item while workers may still take items.    *)
(*                                                                         *)
(* Spec is the whole run of scrape_all followed by the exit status of      *)
(* src/main.py.  The sequential parts of the program have specifications   *)
(* of their own, each over its own variables with every other variable at  *)
(* rest: SpecLinks (get_product_links on an arbitrary listing), SpecDb     *)
(* (DatabaseRepository.save_product on a MySQL database), SpecCookies      *)
(* (_inject_cookies), SpecSanitize (_sanitize_filename), SpecTable (the    *)
(* row loop of _parse_spec_table), SpecImages (the image step of           *)
(* scrape_product), SpecExtract (the field probes of scrape_product) and   *)
(* SpecBatch (save_products_batch).  SpecHang is Spec against a site with  *)
(* one page that may hang its browser session, under fair scheduling of    *)
(* the threads, and SpecLinksFair is SpecLinks with the coordinating       *)
(* thread scheduled fairly.                                                *)
(***************************************************************************)
EXTENDS Integers, Sequences, FiniteSets, TLC

\* ---------------------------------------------------------------- bounds
\* Number of listing pages of the modelled site.
NumPages == 2
\* Largest configured thread count (config.max_threads ranges over 1..MaxThreads).
MaxThreads == 2
\* Largest configured test_limit.
MaxLimit == 2

\* The site of Spec: every page but the last shows the links i and i+1,
\* the last page shows its own link only, so consecutive pages overlap in
\* one product URL.
DefaultSite == [i \in 1..NumPages |-> IF i < NumPages THEN <<i, i + 1>> ELSE <<i>>]
Urls == 1..NumPages
\* Longest link list discovery can hand to the pool (before deduplication).
MaxUnits == 2 * NumPages - 1
Units == 1..MaxUnits
Threads == 1..MaxUnits

VARIABLES
    config,            \* login_enabled, max_threads, test_mode, test_limit
    mainpc,            \* position of the coordinating thread in scrape_all
    retval,            \* what scrape_all returned: "none" | "empty" | "products"
    stop_requested,    \* self.stop_requested
    session_cookies,   \* self.session_cookies (TRUE: a non-empty cookie list)
    curr,              \* get_product_links: current page (0 = None)
    links,             \* get_product_links: links; then the list handed to the pool
    submitted,         \* number of links already submitted to the executor
    queue,             \* executor._work_queue (unit indexes, FIFO)
    shutdown,          \* the executor's None sentinel has been queued
    unit,              \* state of each future / work unit
    numSeen,           \* futures already yielded by as_completed
    idleSem,           \* executor._idle_semaphore
    numThreads,        \* len(executor._threads)
    pc,                \* position of each worker thread
    cur,               \* the unit a worker thread is running (0 = none)
    prod,              \* scrape_product's result is a record (FALSE = None)
    wp,                \* product.wp_id of the record under construction
    tmp,               \* _get_next_number: value read by the increment
    retTo,             \* where the running _get_next_number call returns to
    global_counter,    \* self.global_counter
    counter_lock,      \* self.counter_lock (holder thread, 0 = free)
    products_lock,     \* self.products_lock (holder thread, 0 = free)
    scraped_products,  \* self.scraped_products
    mainSess,          \* the discovery driver's session: "none" | "open" | "quit"
    sess,              \* the session each unit's call of create_driver made
    \* history variables (observers, never read by the program)
    allocated,         \* values returned by _get_next_number, in return order
    pendingAtObs,      \* units still queued when the dispatch loop saw the flag
    midAtStop,         \* units that were mid-extraction when the flag was set
    navCount,          \* how often each product URL was navigated to
    loginFailed,       \* _perform_login returned False
    pagesLoaded,       \* listing pages loaded by get_product_links
    \* the remote site
    site,              \* the listing: the product links each page shows
    \* WordPressScraper.run and main
    run_result,        \* what run() did: "none" | "raised" | "empty" | "records"
    exit_status,       \* the process's exit status (-1 while it runs)
    \* DatabaseRepository
    db_enabled,        \* self.config.enabled
    db,                \* the MySQL database: one field per table
    save_result,       \* what the last call of save_product returned (0 = None)
    saves,             \* history: the successful saves, in order
    \* _inject_cookies
    inj_cookies,       \* self.session_cookies (cookie identities, in order)
    inj_fails,         \* the driver calls that raise in this session
    inj_pc,            \* position inside _inject_cookies
    inj_calls,         \* the driver calls made so far that succeeded
    \* _sanitize_filename
    san_name,          \* the argument
    san_result,        \* the returned string (NotCalled before the call)
    \* _parse_spec_table
    tbl_rows,          \* the rows find_elements returned
    tbl_i,             \* rows consumed by the for loop
    product_oem,       \* product.oem
    product_attributes, \* product.attributes
    \* scrape_product, the image step
    download_images,   \* self.config.download_images
    gallery,           \* the page has the gallery container
    img_elems,         \* the img elements of the gallery
    img_i,             \* elements consumed by the for loop
    image_urls,        \* image_urls
    seen,              \* seen
    img_pc,            \* position inside the image step
    counter,           \* the local counter of line 316 (0 = unbound)
    product_images,    \* product.images
    local_paths,       \* local_paths of line 321
    downloads,         \* history: the calls of download_image, in order
    \* scrape_product, the sequence of field probes
    ext_pc,            \* the probe scrape_product is about to make
    outcomes,          \* history: the probes made so far and how each ended
    product,           \* the ProductData under construction
    ext_result,        \* what scrape_product returned: "none" | "record" | "null"
    \* DatabaseRepository.save_products_batch
    batch,             \* the argument products
    batch_i,           \* records consumed by the for loop
    saved_count,       \* saved_count
    batch_pc,          \* position inside save_products_batch
    db_lock,           \* self.db_lock is held
    batch_result,      \* the returned count (-1 before the return)
    attempts,          \* history: the calls of save_product and their results
    \* the remote site, continued
    hung               \* the unit whose page may hang its session (0 = none)

vars == <<config, mainpc, retval, stop_requested, session_cookies, curr, links,
          submitted, queue, shutdown, unit, numSeen, idleSem, numThreads, pc,
          cur, prod, wp, tmp, retTo, global_counter, counter_lock,
          products_lock, scraped_products, mainSess, sess, allocated,
          pendingAtObs, midAtStop, navCount, loginFailed, pagesLoaded>>

mainVars == <<mainpc, retval, session_cookies, curr, links, submitted,
              mainSess, loginFailed, pagesLoaded>>
poolVars == <<queue, shutdown, unit, numSeen, idleSem, numThreads>>
workerVars == <<pc, cur, prod, wp, tmp, retTo>>
sharedVars == <<global_counter, counter_lock, products_lock, scraped_products>>
histVars == <<allocated, pendingAtObs, midAtStop, navCount>>
exitVars == <<run_result, exit_status>>
dbVars == <<db_enabled, db, save_result, saves>>
cookieVars == <<inj_cookies, inj_fails, inj_pc, inj_calls>>
sanVars == <<san_name, san_result>>
tableVars == <<tbl_rows, tbl_i, product_oem, product_attributes>>
\* The variables no step of scrape_all touches.
imageVars == <<download_images, gallery, img_elems, img_i, image_urls, seen,
               img_pc, counter, product_images, local_paths, downloads>>
\* The variables of the remaining parts of an extraction and of a batch save.
extractVars == <<ext_pc, outcomes, product, ext_result>>
batchVars == <<batch, batch_i, saved_count, batch_pc, db_lock, batch_result,
               attempts>>
moreVars == <<imageVars, extractVars, hung, batchVars>>
otherVars == <<dbVars, cookieVars, sanVars, tableVars, moreVars>>
allVars == <<vars, site, exitVars, moreVars, otherVars>>

\* ---------------------------------------------------------------- helpers
Range(s) == {s[i] : i \in 1..Len(s)}

RECURSIVE SetToSeq(_)
SetToSeq(S) ==
    IF S = {} THEN <<>>
    ELSE LET m == CHOOSE x \in S : \A y \in S : x <= y
         IN <<m>> \o SetToSeq(S \ {m})

\* links[:test_limit]
Truncate(l, n) == IF Len(l) > n THEN SubSeq(l, 1, n) ELSE l

\* A browser session: its state and the calls made on it, in order; users
\* are the units that navigated in it.
NoSession == [st |-> "none", ops |-> <<>>, users |-> {}]
NewSession == [st |-> "open", ops |-> <<>>, users |-> {}]

\* The listing as the discovery driver sees it: the links of page i, and
\* the page its next-page control leads to (0: the control is missing).
PageLinks(i) == site[i]
\* Mutant of NextPage: a listing whose last page links back to its first.
NextPageLoops(i) == IF i < Len(site) THEN i + 1 ELSE 1
NextPage(i) == IF i < Len(site) THEN i + 1 ELSE 0

\* Python's None where a string may stand.
None == "<None>"
\* A string is the sequence of its characters.  StrNone is None where a
\* string is expected, NotCalled the result of a call not made yet.
Str(chars) == [none |-> FALSE, s |-> chars]
StrNone == [none |-> TRUE, s |-> <<>>]
NotCalled == [none |-> TRUE, s |-> <<"not called">>]

\* ---------------------------------------------------------------- Init
\* The tables _create_tables creates, empty.
EmptyDb == [products |-> {}, product_images |-> {}, categories |-> {},
            product_categories |-> {}]

\* The parts of the program at rest: no repository call, no cookie
\* injection, no sanitizer call and no table parse under way.
DbIdle == db_enabled = FALSE /\ db = EmptyDb /\ save_result = 0 /\ saves = <<>>
CookiesIdle ==
    inj_cookies = <<>> /\ inj_fails = {} /\ inj_pc = "done" /\ inj_calls = <<>>
SanIdle == san_name = StrNone /\ san_result = NotCalled
TableIdle ==
    tbl_rows = <<>> /\ tbl_i = 0 /\ product_oem = StrNone /\ product_attributes = <<>>
ImagesIdle ==
    /\ download_images = FALSE /\ gallery = FALSE /\ img_elems = <<>>
    /\ img_i = 0 /\ image_urls = <<>> /\ seen = {} /\ img_pc = "done"
    /\ counter = 0 /\ product_images = <<>>
    /\ local_paths = <<>> /\ downloads = <<>>
\* ProductData's defaults (product_data.py lines 11-24), before url is set.
NewProduct ==
    [wp_id |-> None, title |-> None, price |-> None, description |-> None,
     sku |-> None, oem |-> None, tags |-> <<>>, attributes |-> <<>>,
     images |-> <<>>, categories |-> <<>>]
ExtractIdle ==
    /\ ext_pc = "idle" /\ outcomes = <<>> /\ product = NewProduct
    /\ ext_result = "none"
BatchIdle ==
    /\ batch = <<>> /\ batch_i = 0 /\ saved_count = 0 /\ batch_pc = "idle"
    /\ db_lock = FALSE /\ batch_result = -1 /\ attempts = <<>>
MoreIdle == ImagesIdle /\ ExtractIdle /\ hung = 0 /\ BatchIdle
ExitIdle == run_result = "none" /\ exit_status = -1

\* ScraperService.__init__ (lines 20-34).
ServiceInit ==
    /\ mainpc = "start"
    /\ retval = "none"
    /\ stop_requested = FALSE
    /\ session_cookies = FALSE
    /\ curr = 0
    /\ links = <<>>
    /\ submitted = 0
    /\ queue = <<>>
    /\ shutdown = FALSE
    /\ unit = [i \in Units |-> "none"]
    /\ numSeen = 0
    /\ idleSem = 0
    /\ numThreads = 0
    /\ pc = [t \in Threads |-> "unborn"]
    /\ cur = [t \in Threads |-> 0]
    /\ prod = [t \in Threads |-> FALSE]
    /\ wp = [t \in Threads |-> 0]
    /\ tmp = [t \in Threads |-> 0]
    /\ retTo = [t \in Threads |-> "none"]
    /\ global_counter = 0
    /\ counter_lock = 0
    /\ products_lock = 0
    /\ scraped_products = <<>>
    /\ mainSess = "none"
    /\ sess = [i \in Units |-> NoSession]
    /\ allocated = <<>>
    /\ pendingAtObs = {}
    /\ midAtStop = {}
    /\ navCount = [u \in Urls |-> 0]
    /\ loginFailed = FALSE
    /\ pagesLoaded = 0

\* The configurations of Spec.  test_limit is read in test mode only, so
\* one value stands for it when test mode is off.
Configs ==
    {c \in [login_enabled : BOOLEAN,
            max_threads : 1..MaxThreads,
            test_mode : BOOLEAN,
            test_limit : 1..MaxLimit] : ~c.test_mode => c.test_limit = MaxLimit}

\* A run of main on a configuration loaded by ScraperConfig, against the
\* site of Spec.
Init ==
    /\ config \in Configs
    /\ ServiceInit
    /\ site = DefaultSite
    /\ ExitIdle
    /\ DbIdle /\ CookiesIdle /\ SanIdle /\ TableIdle /\ MoreIdle

\* scrape_all at rest, for the specifications of the sequential parts.
ScrapeIdle ==
    /\ config = [login_enabled |-> FALSE, max_threads |-> 1,
                 test_mode |-> FALSE, test_limit |-> MaxLimit]
    /\ ServiceInit
    /\ site = DefaultSite
    /\ ExitIdle

\* Positions of a worker between opening its session and quitting it.
ExtractingPcs == {"nav", "probe", "c_enter", "c_write", "append", "a_app",
                  "close"}

\* ------------------------------------------------------------ request_stop
\* request_stop: the SIGINT handler sets the flag; nothing ever clears it.
request_stop ==
    /\ mainpc \notin {"returned", "raised"}
    /\ ~stop_requested
    /\ stop_requested' = TRUE
    /\ midAtStop' = {cur[t] : t \in {x \in Threads : pc[x] \in ExtractingPcs}}
    /\ UNCHANGED <<otherVars, site, exitVars, config, mainVars, poolVars,
                   workerVars, sharedVars, sess, allocated, pendingAtObs,
                   navCount>>

\* ------------------------------------------------------ scrape_all, part 1
\* scrape_all line 450: the discovery driver; create_driver re-raises on
\* failure and scrape_all has no handler, so the caller gets the exception.
CreateMainDriver ==
    /\ mainpc = "start"
    /\ \/ /\ mainSess' = "open"
          /\ mainpc' = IF config.login_enabled THEN "login" ELSE "links_top"
          /\ curr' = 1
       \/ /\ mainpc' = "raised"
          /\ UNCHANGED <<mainSess, curr>>
    /\ UNCHANGED <<otherVars, site, exitVars, config, retval, stop_requested,
                   session_cookies, links, submitted, loginFailed,
                   pagesLoaded, poolVars, workerVars, sharedVars,
                   sess, histVars>>

\* _perform_login returns True with the cookies captured, or False on any
\* exception.
PerformLoginResult(ok) == [cookies |-> ok, result |-> ok]

\* What scrape_all does with _perform_login's result (line 453: the call is
\* a statement, its value is dropped): the position it continues at.
AfterLogin(result) == "links_top"

PerformLogin ==
    /\ mainpc = "login"
    /\ \E ok \in BOOLEAN :
          LET r == PerformLoginResult(ok) IN
          /\ session_cookies' = r.cookies
          /\ loginFailed' = ~r.result
          /\ mainpc' = AfterLogin(r.result)
    /\ UNCHANGED <<otherVars, site, exitVars, config, retval, stop_requested,
                   curr, links, submitted, mainSess, pagesLoaded,
                   poolVars, workerVars, sharedVars, sess, histVars>>

\* Mutant of CapReached: a discovery that ignores the cap.
CapReachedNever(l) == FALSE

\* get_product_links lines 399 and 421: the test-mode cap.
CapReached(l) == config.test_mode /\ Len(l) >= config.test_limit

\* Mutant of LoopHeadStops: a discovery that never looks at the flag.
LoopHeadStopsNever == FALSE

\* get_product_links lines 394-396: the stop flag, read at the loop head.
LoopHeadStops == stop_requested

\* get_product_links lines 392-403: the loop head.
LinksTop ==
    /\ mainpc = "links_top"
    /\ mainpc' = IF curr = 0 \/ LoopHeadStops \/ CapReached(links)
                 THEN "links_done" ELSE "links_load"
    /\ UNCHANGED <<otherVars, site, exitVars, config, retval, stop_requested,
                   session_cookies, curr, links, submitted, mainSess,
                   loginFailed, pagesLoaded, poolVars,
                   workerVars, sharedVars, sess, histVars>>

\* Mutant of LinksAfterFailure: a failing page that costs the links
\* collected before it.
LinksAfterFailureLost(l) == <<>>

\* get_product_links lines 431-433: the handler of a failing load or query
\* logs and breaks; links is as it was before the page (line 413 was not
\* reached).
LinksAfterFailure(l) == l

\* get_product_links lines 405-433: load one listing page.  A failing load
\* or query breaks the loop; so does a missing next-page control.
LinksLoad ==
    /\ mainpc = "links_load"
    /\ \/ /\ links' = links \o PageLinks(curr)
          /\ pagesLoaded' = pagesLoaded + 1
          /\ IF CapReached(links') \/ NextPage(curr) = 0
             THEN mainpc' = "links_done" /\ curr' = curr
             ELSE mainpc' = "links_top" /\ curr' = NextPage(curr)
       \/ /\ mainpc' = "links_done"
          /\ pagesLoaded' = pagesLoaded + 1
          /\ links' = LinksAfterFailure(links)
          /\ curr' = curr
    /\ UNCHANGED <<otherVars, site, exitVars, config, retval, stop_requested,
                   session_cookies, submitted, mainSess, loginFailed,
                   poolVars, workerVars, sharedVars, sess, histVars>>

\* Mutant of Dedup: returning the accumulated list as it is.
DedupNone(l) == l

\* get_product_links line 439: list(set(links)).
Dedup(l) == SetToSeq(Range(l))

\* get_product_links lines 435-439, then scrape_all lines 455-460: truncate
\* to the cap, deduplicate, quit the discovery driver, return [] when empty.
LinksDone ==
    /\ mainpc = "links_done"
    /\ links' = Dedup(IF config.test_mode
                      THEN Truncate(links, config.test_limit) ELSE links)
    /\ mainSess' = "quit"
    /\ IF links' = <<>>
       THEN mainpc' = "returned" /\ retval' = "empty"
       ELSE mainpc' = "submit" /\ retval' = retval
    /\ UNCHANGED <<otherVars, site, exitVars, config, stop_requested,
                   session_cookies, curr, submitted, loginFailed, pagesLoaded, poolVars, workerVars, sharedVars, sess,
                   histVars>>

\* ------------------------------------------------------ scrape_all, part 2
\* Mutant of CanSpawn: a pool that never grows beyond its first thread.
CanSpawnOne == numThreads = 0

\* Mutant of CanSpawn: a thread per submitted link.
CanSpawnAlways == TRUE

\* ThreadPoolExecutor(max_workers=config.max_threads): submit starts a new
\* thread only while fewer than max_workers exist.
CanSpawn == numThreads < config.max_threads

\* scrape_all line 466: executor.submit for the next link.  The unit is
\* queued; an idle worker is claimed, else a thread is spawned if allowed.
Submit ==
    /\ mainpc = "submit"
    /\ LET i == submitted + 1 IN
       /\ submitted' = i
       /\ unit' = [unit EXCEPT ![i] = "queued"]
       /\ queue' = Append(queue, i)
       /\ IF idleSem > 0
          THEN idleSem' = idleSem - 1 /\ UNCHANGED <<numThreads, pc>>
          ELSE IF CanSpawn
               THEN /\ numThreads' = numThreads + 1
                    /\ pc' = [pc EXCEPT ![numThreads + 1] = "idle"]
                    /\ idleSem' = idleSem
               ELSE UNCHANGED <<idleSem, numThreads, pc>>
       /\ mainpc' = IF i = Len(links) THEN "as_completed" ELSE "submit"
    /\ UNCHANGED <<otherVars, site, exitVars, config, retval, stop_requested,
                   session_cookies, curr, links, mainSess, loginFailed,
                   pagesLoaded, shutdown, numSeen, cur, prod, wp,
                   tmp, retTo, sharedVars, sess, histVars>>

\* A future is done once its unit finished, was skipped, crashed or was
\* cancelled.
DoneStates == {"record", "null", "skipped", "crashed", "cancelled"}
NumDone == Cardinality({i \in 1..Len(links) : unit[i] \in DoneStates})

\* scrape_all lines 469-479: as_completed yields one more finished future;
\* the loop body reads the flag and either leaves the loop through
\* shutdown(wait=False, cancel_futures=True) or counts the future.
AsCompleted ==
    /\ mainpc = "as_completed"
    /\ numSeen < NumDone
    /\ IF stop_requested
       THEN /\ mainpc' = "drain"
            /\ pendingAtObs' = Range(queue)
            /\ numSeen' = numSeen
       ELSE /\ numSeen' = numSeen + 1
            /\ mainpc' = IF numSeen' = Len(links) THEN "exit_with"
                         ELSE "as_completed"
            /\ pendingAtObs' = pendingAtObs
    /\ UNCHANGED <<otherVars, site, exitVars, config, retval, stop_requested,
                   session_cookies, curr, links, submitted, mainSess,
                   loginFailed, pagesLoaded, queue, shutdown,
                   unit, idleSem, numThreads, workerVars, sharedVars, sess,
                   allocated, midAtStop, navCount>>

\* shutdown(cancel_futures=True), one queue item: take it off the queue and
\* cancel its future.
CancelHead(q, u) == [queue |-> Tail(q), unit |-> [u EXCEPT ![Head(q)] = "cancelled"]]

\* Mutant of Drain: shutdown(wait=False) without cancel_futures, which
\* leaves the queued units in the queue.
DrainNoCancel ==
    /\ mainpc = "drain"
    /\ shutdown' = TRUE
    /\ mainpc' = "exit_with"
    /\ UNCHANGED <<otherVars, site, exitVars, config, retval, stop_requested,
                   session_cookies, curr, links, submitted, mainSess,
                   loginFailed, pagesLoaded, queue, unit,
                   numSeen, idleSem, numThreads, workerVars, sharedVars,
                   sess, histVars>>

\* scrape_all line 474: shutdown(wait=False, cancel_futures=True) drains the
\* queue item by item, then queues the None sentinel; it joins nothing.
Drain ==
    /\ mainpc = "drain"
    /\ IF queue # <<>>
       THEN LET r == CancelHead(queue, unit) IN
            /\ queue' = r.queue
            /\ unit' = r.unit
            /\ UNCHANGED <<shutdown, mainpc>>
       ELSE /\ shutdown' = TRUE
            /\ mainpc' = "exit_with"
            /\ UNCHANGED <<queue, unit>>
    /\ UNCHANGED <<otherVars, site, exitVars, config, retval, stop_requested,
                   session_cookies, curr, links, submitted, mainSess,
                   loginFailed, pagesLoaded, numSeen, idleSem,
                   numThreads, workerVars, sharedVars, sess, histVars>>

\* scrape_all line 465, leaving the with block: shutdown(wait=True) queues
\* the None sentinel, then joins.
ExitWith ==
    /\ mainpc = "exit_with"
    /\ shutdown' = TRUE
    /\ mainpc' = "join"
    /\ UNCHANGED <<otherVars, site, exitVars, config, retval, stop_requested,
                   session_cookies, curr, links, submitted, mainSess,
                   loginFailed, pagesLoaded, queue, unit,
                   numSeen, idleSem, numThreads, workerVars, sharedVars,
                   sess, histVars>>

\* Mutant of AllJoined: leaving the with block without joining the workers.
AllJoinedNoWait == TRUE

\* shutdown(wait=True): t.join() for every thread of the pool.
AllJoined == \A t \in 1..numThreads : pc[t] = "exited"

\* scrape_all line 481: return self.scraped_products (the list itself, not
\* a copy), once the with block has been left.
Join ==
    /\ mainpc = "join"
    /\ AllJoined
    /\ mainpc' = "returned"
    /\ retval' = "products"
    /\ UNCHANGED <<otherVars, site, exitVars, config, stop_requested,
                   session_cookies, curr, links, submitted, mainSess,
                   loginFailed, pagesLoaded, poolVars,
                   workerVars, sharedVars, sess, histVars>>

\* ------------------------------------------------ WordPressScraper.run, main
\* What scrape_all handed to run: the result list, or the [] of line 460.
Returned == IF retval = "products" THEN scraped_products ELSE <<>>

\* WordPressScraper.run lines 68-87.  An exception of scrape_all passes
\* through; an empty result returns [] at once; else the records are saved
\* (the file writes of _save_files have no handler, so saving may raise)
\* and returned.
Run ==
    /\ run_result = "none"
    /\ mainpc \in {"returned", "raised"}
    /\ IF mainpc = "raised" THEN run_result' = "raised"
       ELSE IF Returned = <<>> THEN run_result' = "empty"
       ELSE run_result' \in {"records", "raised"}
    /\ UNCHANGED <<otherVars, site, exit_status, vars>>

\* Mutant of ExitStatus: a process that always ends with status 0.
ExitStatusZero(result) == 0

\* main lines 149-163: sys.exit(1) on an empty list and on an exception,
\* else main returns and the process ends with status 0.
ExitStatus(result) == IF result = "records" THEN 0 ELSE 1

MainExit ==
    /\ run_result # "none"
    /\ exit_status = -1
    /\ exit_status' = ExitStatus(run_result)
    /\ UNCHANGED <<otherVars, site, run_result, vars>>

\* ------------------------------------------------------- the pool's worker
\* _worker: take the next work item off the queue and mark its future
\* running.
Take(t) ==
    /\ pc[t] = "idle"
    /\ queue # <<>>
    /\ queue' = Tail(queue)
    /\ unit' = [unit EXCEPT ![Head(queue)] = "running"]
    /\ cur' = [cur EXCEPT ![t] = Head(queue)]
    /\ pc' = [pc EXCEPT ![t] = "check"]
    /\ UNCHANGED <<otherVars, site, exitVars, config, mainVars,
                   stop_requested, shutdown, numSeen, idleSem, numThreads,
                   prod, wp, tmp, retTo, sharedVars, sess, histVars>>

\* _worker: the None sentinel ends the thread.
ThreadExit(t) ==
    /\ pc[t] = "idle"
    /\ queue = <<>>
    /\ shutdown
    /\ pc' = [pc EXCEPT ![t] = "exited"]
    /\ UNCHANGED <<otherVars, site, exitVars, config, mainVars,
                   stop_requested, poolVars, cur, prod, wp, tmp, retTo,
                   sharedVars, sess, histVars>>

\* scrape_product_worker returns (or its handler does): the future gets its
\* result, the worker's locals are gone and the thread is idle again.
Finish(t, outcome) ==
    /\ unit' = [unit EXCEPT ![cur[t]] = outcome]
    /\ cur' = [cur EXCEPT ![t] = 0]
    /\ prod' = [prod EXCEPT ![t] = FALSE]
    /\ wp' = [wp EXCEPT ![t] = 0]
    /\ pc' = [pc EXCEPT ![t] = "idle"]
    /\ idleSem' = idleSem + 1

\* Mutant of EntryCheckSkips: a worker that never looks at the flag.
EntryCheckNever == FALSE

\* scrape_product_worker lines 351-353: the entry check of the stop flag.
\* TRUE: the unit is skipped.
EntryCheckSkips == stop_requested

CheckStop(t) ==
    /\ pc[t] = "check"
    /\ IF EntryCheckSkips
       THEN /\ Finish(t, "skipped")
       ELSE /\ pc' = [pc EXCEPT ![t] = "create"]
            /\ UNCHANGED <<unit, cur, prod, wp, idleSem>>
    /\ UNCHANGED <<otherVars, site, exitVars, config, mainVars,
                   stop_requested, queue, shutdown, numSeen, numThreads, tmp,
                   retTo, sharedVars, sess, histVars>>

\* Mutant of CrashEffect: a crash that tears the pool down, cancelling
\* every unit still queued.
CrashEffectAbort(q, u) ==
    [queue |-> <<>>,
     unit |-> [i \in DOMAIN u |-> IF u[i] = "queued" THEN "cancelled" ELSE u[i]]]

\* What a crash inside a work unit does to the pool's queue and futures:
\* nothing, the handlers of lines 369-375 return None.
CrashEffect(q, u) == [queue |-> q, unit |-> u]

\* scrape_product_worker lines 355-360: create_driver.  On success the
\* unit owns a fresh session (and _inject_cookies, which swallows every
\* failure, has run in it); on failure the handlers return None with driver
\* still None, so the finally block closes nothing.
CreateDriver(t) ==
    /\ pc[t] = "create"
    /\ \/ /\ sess' = [sess EXCEPT ![cur[t]] = NewSession]
          /\ pc' = [pc EXCEPT ![t] = "nav"]
          /\ UNCHANGED <<unit, cur, idleSem, queue>>
       \/ /\ LET r == CrashEffect(queue, unit) IN
             /\ queue' = r.queue
             /\ unit' = [r.unit EXCEPT ![cur[t]] = "crashed"]
          /\ cur' = [cur EXCEPT ![t] = 0]
          /\ pc' = [pc EXCEPT ![t] = "idle"]
          /\ idleSem' = idleSem + 1
          /\ sess' = sess
    /\ UNCHANGED <<otherVars, site, exitVars, config, mainVars,
                   stop_requested, shutdown, numSeen, numThreads, prod, wp,
                   tmp, retTo, sharedVars, histVars>>

\* The session the unit of thread t navigates in: the one its own call of
\* create_driver returned (a local of scrape_product_worker).
SessionFor(t) == cur[t]

\* The identifier the page of link u carries (div.product id="product-N").
PageId(u) == u

\* scrape_product lines 218-337, the field probes after wp_id is set.  A
\* probe that raises past its own handler (the SKU probe catches
\* NoSuchElementException only) ends in the outer handler with None; a page
\* without gallery leaves the image step through its handler; a page with a
\* gallery reaches the _get_next_number call of line 316.
Probes(t) ==
    \/ /\ pc' = [pc EXCEPT ![t] = "close"]
       /\ UNCHANGED <<prod, retTo>>
    \/ /\ pc' = [pc EXCEPT ![t] = "append"]
       /\ prod' = [prod EXCEPT ![t] = TRUE]
       /\ retTo' = retTo
    \/ /\ pc' = [pc EXCEPT ![t] = "c_enter"]
       /\ retTo' = [retTo EXCEPT ![t] = "append"]
       /\ prod' = [prod EXCEPT ![t] = TRUE]

\* scrape_product lines 200-216 and 344-346: driver.get(url), caught by the
\* outer handler when it fails (the record is None); then wp_id, from the
\* page or, without one, from the counter.
Navigate(t) ==
    /\ pc[t] = "nav"
    /\ sess' = [sess EXCEPT ![SessionFor(t)].users = @ \cup {cur[t]}]
    /\ navCount' = [navCount EXCEPT ![links[cur[t]]] = @ + 1]
    /\ \/ /\ pc' = [pc EXCEPT ![t] = "close"]
          /\ UNCHANGED <<prod, wp, retTo>>
       \/ /\ wp' = [wp EXCEPT ![t] = PageId(links[cur[t]])]
          /\ Probes(t)
       \/ /\ retTo' = [retTo EXCEPT ![t] = "probe"]
          /\ pc' = [pc EXCEPT ![t] = "c_enter"]
          /\ UNCHANGED <<prod, wp>>
    /\ UNCHANGED <<otherVars, site, exitVars, config, mainVars,
                   stop_requested, poolVars, cur, tmp, sharedVars, allocated,
                   pendingAtObs, midAtStop>>

\* scrape_product, continuing after the _get_next_number call of line 216.
Probe(t) ==
    /\ pc[t] = "probe"
    /\ Probes(t)
    /\ UNCHANGED <<otherVars, site, exitVars, config, mainVars,
                   stop_requested, poolVars, cur, wp, tmp, sharedVars, sess,
                   histVars>>

\* ------------------------------------------------------- _get_next_number
\* Mutant of CounterLockFree: the increment without the lock.
CounterLockIgnored == TRUE

\* with self.counter_lock: a Lock is acquired only while no thread holds it.
CounterLockFree == counter_lock = 0

\* Mutant of ReleaseLock: a with block left without releasing its lock.
ReleaseLockNever(lock, t) == lock

\* The end of `with lock:` in thread t: the lock is free again.
ReleaseLock(lock, t) == IF lock = t THEN 0 ELSE lock

\* _get_next_number lines 43-44: enter the lock, read the counter.
CounterEnter(t) ==
    /\ pc[t] = "c_enter"
    /\ CounterLockFree
    /\ counter_lock' = t
    /\ tmp' = [tmp EXCEPT ![t] = global_counter]
    /\ pc' = [pc EXCEPT ![t] = "c_write"]
    /\ UNCHANGED <<otherVars, site, exitVars, config, mainVars,
                   stop_requested, poolVars, cur, prod, wp, retTo,
                   global_counter, products_lock, scraped_products, sess,
                   histVars>>

\* _get_next_number lines 44-45: store the incremented value, return
\* self.global_counter and leave the lock.  The value becomes the wp_id
\* (call of line 216) or the folder number (call of line 316).
CounterWrite(t) ==
    /\ pc[t] = "c_write"
    /\ global_counter' = tmp[t] + 1
    /\ allocated' = Append(allocated, global_counter')
    /\ counter_lock' = ReleaseLock(counter_lock, t)
    /\ wp' = IF retTo[t] = "probe" THEN [wp EXCEPT ![t] = global_counter'] ELSE wp
    /\ pc' = [pc EXCEPT ![t] = retTo[t]]
    /\ retTo' = [retTo EXCEPT ![t] = "none"]
    /\ tmp' = [tmp EXCEPT ![t] = 0]
    /\ UNCHANGED <<otherVars, site, exitVars, config, mainVars,
                   stop_requested, poolVars, cur, prod, products_lock,
                   scraped_products, sess, pendingAtObs, midAtStop,
                   navCount>>

\* -------------------------------------------- scrape_product_worker, the end
\* scrape_product_worker lines 364-365: a non-None record enters the lock.
AppendEnter(t) ==
    /\ pc[t] = "append"
    /\ products_lock = 0
    /\ products_lock' = t
    /\ pc' = [pc EXCEPT ![t] = "a_app"]
    /\ UNCHANGED <<otherVars, site, exitVars, config, mainVars,
                   stop_requested, poolVars, cur, prod, wp, tmp, retTo,
                   global_counter, counter_lock, scraped_products, sess,
                   histVars>>

\* The record scrape_product built for the unit of thread t.
Product(t) == [url |-> links[cur[t]], wp_id |-> wp[t]]

\* Mutant of AppendProduct: rebinding the list instead of appending to it.
AppendProductRebind(list, p) == <<p>>

\* scrape_product_worker line 366: self.scraped_products.append(p).
AppendProduct(list, p) == Append(list, p)

AppendDo(t) ==
    /\ pc[t] = "a_app"
    /\ scraped_products' = AppendProduct(scraped_products, Product(t))
    /\ products_lock' = ReleaseLock(products_lock, t)
    /\ pc' = [pc EXCEPT ![t] = "close"]
    /\ UNCHANGED <<otherVars, site, exitVars, config, mainVars,
                   stop_requested, poolVars, cur, prod, wp, tmp, retTo,
                   global_counter, counter_lock, sess, histVars>>

\* Mutant of FinallyOps: close and quit in one try block, so that a
\* failing close skips quit.
FinallyOpsOneTry(ok) == IF ok THEN <<"close", "quit">> ELSE <<"close">>

\* scrape_product_worker lines 377-385, the calls the finally block makes
\* on the session: close has its own handler, so quit follows whether
\* close raised (ok = FALSE) or not.
FinallyOps(ok) == <<"close", "quit">>

\* scrape_product_worker lines 376-386 and 367: the finally block, then the
\* function returns p.  quit ends the session.
Close(t) ==
    /\ pc[t] = "close"
    /\ \E ok \in BOOLEAN :
          LET ops == FinallyOps(ok) IN
          sess' = [sess EXCEPT ![cur[t]] =
                      [@ EXCEPT !.ops = @ \o ops,
                                !.st = IF "quit" \in Range(ops)
                                       THEN "quit" ELSE @]]
    /\ Finish(t, IF prod[t] THEN "record" ELSE "null")
    /\ UNCHANGED <<otherVars, site, exitVars, config, mainVars,
                   stop_requested, queue, shutdown, numSeen, numThreads, tmp,
                   retTo, sharedVars, histVars>>

\* ---------------------------------------------------------- specification
Worker(t) ==
    \/ Take(t)
    \/ ThreadExit(t)
    \/ CheckStop(t)
    \/ CreateDriver(t)
    \/ Navigate(t)
    \/ Probe(t)
    \/ CounterEnter(t)
    \/ CounterWrite(t)
    \/ AppendEnter(t)
    \/ AppendDo(t)
    \/ Close(t)

Next ==
    \/ request_stop
    \/ CreateMainDriver
    \/ PerformLogin
    \/ LinksTop
    \/ LinksLoad
    \/ LinksDone
    \/ Submit
    \/ AsCompleted
    \/ Drain
    \/ ExitWith
    \/ Join
    \/ Run
    \/ MainExit
    \/ \E t \in Threads : Worker(t)

Spec == Init /\ [][Next]_allVars

\* ================================================== get_product_links
\* Longest listing, in pages.
MaxSitePages == 3
\* Largest configured cap (config.test_limit) of SpecLinks.
MaxCap == 3

\* What one listing page may show: nothing, one product, or two products
\* of which one may be shown by a neighbouring page as well.
PageChoices == {<<>>, <<1>>, <<1, 2>>, <<2, 3>>, <<3, 4>>}

\* The listings: 1 to MaxSitePages pages, each linked to the next.
Sites == UNION {[1..n -> PageChoices] : n \in 1..MaxSitePages}

\* scrape_all on any such listing, login disabled, with and without a cap.
InitLinks ==
    /\ config \in {c \in [login_enabled : {FALSE},
                         max_threads : {1},
                         test_mode : BOOLEAN,
                         test_limit : 1..MaxCap] :
                      ~c.test_mode => c.test_limit = MaxCap}
    /\ ServiceInit
    /\ site \in Sites
    /\ ExitIdle
    /\ DbIdle /\ CookiesIdle /\ SanIdle /\ TableIdle /\ MoreIdle

\* scrape_all up to the return of get_product_links (line 455).
NextLinks ==
    \/ request_stop
    \/ CreateMainDriver
    \/ LinksTop
    \/ LinksLoad
    \/ LinksDone

SpecLinks == InitLinks /\ [][NextLinks]_allVars

\* The steps of the coordinating thread in NextLinks.
DiscoverySteps == CreateMainDriver \/ LinksTop \/ LinksLoad \/ LinksDone

\* SpecLinks with the coordinating thread scheduled whenever it can take a
\* step, and every browser call of the discovery returning or raising
\* (LinksLoad has both outcomes).  The signal of request_stop may never
\* come.
SpecLinksFair == SpecLinks /\ WF_allVars(DiscoverySteps)

\* ================================================== DatabaseRepository
\* Largest number of successful saves in one behaviour.
MaxSaves == 2

\* The records handed to save_product: wp_id is the identifier read from
\* the page (or synthesized), sku may be None; title stands for each of the
\* columns title, price, description, url and scraped_at, which the
\* statement of lines 133-143 treats alike.
Records ==
    [wp_id : {"3785", "3786"},
     sku : {None, "S1"},
     title : {"t1", "t2"},
     images : {<<>>, <<"a.jpg">>, <<"b.jpg", "a.jpg">>},
     categories : {<<>>, <<"X">>, <<"Y", "X">>}]

\* AUTO_INCREMENT: an id no row of the table has.
NextId(tbl) ==
    IF tbl = {} THEN 1
    ELSE 1 + (CHOOSE m \in {r.id : r \in tbl} : \A r \in tbl : r.id <= m)

\* The rows the UNIQUE index on sku (line 65) sees as duplicates of a new
\* row: MySQL never treats NULL as equal to NULL in a unique index.
Conflicts(tbl, p) == {r \in tbl : p.sku # None /\ r.sku = p.sku}

\* save_product lines 133-155: INSERT ... ON DUPLICATE KEY UPDATE.  On a
\* duplicate sku the row keeps its id and sku and gets the new values of
\* the other columns; else a new row is inserted.  The table has no column
\* for wp_id.
Upsert(tbl, p) ==
    IF Conflicts(tbl, p) # {}
    THEN {IF r \in Conflicts(tbl, p) THEN [r EXCEPT !.title = p.title] ELSE r :
             r \in tbl}
    ELSE tbl \cup {[id |-> NextId(tbl), title |-> p.title, sku |-> p.sku]}

\* cursor.lastrowid after the statement: the new row's id after an insert;
\* after an update the row's id or 0, depending on the server.
LastRowIds(tbl, p) ==
    IF Conflicts(tbl, p) # {}
    THEN {r.id : r \in Conflicts(tbl, p)} \cup {0}
    ELSE {NextId(tbl)}

\* save_product lines 157-166: product_id, looked up by sku when lastrowid
\* is 0 (0 stands for None: no row found).
ProductId(tbl, p, lastrowid) ==
    IF lastrowid # 0 THEN lastrowid
    ELSE IF \E r \in tbl : p.sku # None /\ r.sku = p.sku
         THEN (CHOOSE r \in tbl : r.sku = p.sku).id
         ELSE 0

\* Mutant of DeleteImages: a save that keeps the old image rows.
DeleteImagesNone(imgs, pid) == imgs

\* save_product lines 170-173: DELETE FROM product_images WHERE product_id.
DeleteImages(imgs, pid) == {r \in imgs : r.product_id # pid}

\* save_product lines 176-186: one row per image, image_order from 0.
InsertImages(imgs, pid, images) ==
    imgs \cup {[product_id |-> pid, image_url |-> images[k],
                image_order |-> k - 1] : k \in 1..Len(images)}

\* save_product lines 190-214, for the category names from index k on: find
\* the category or create it, then INSERT IGNORE the association.  No
\* statement of save_product deletes from product_categories.
RECURSIVE SaveCategories(_, _, _, _, _)
SaveCategories(cats, assoc, pid, names, k) ==
    IF k > Len(names) THEN [categories |-> cats, product_categories |-> assoc]
    ELSE LET found == {c \in cats : c.name = names[k]}
             cid == IF found # {} THEN (CHOOSE c \in found : TRUE).id
                    ELSE NextId(cats)
             cats2 == IF found # {} THEN cats
                      ELSE cats \cup {[id |-> cid, name |-> names[k]]}
         IN SaveCategories(cats2,
                assoc \cup {[product_id |-> pid, category_id |-> cid]},
                pid, names, k + 1)

\* save_product lines 128-222, the statements of one committed transaction.
Committed(d, p, lastrowid) ==
    LET tbl == Upsert(d.products, p)
        pid == ProductId(tbl, p, lastrowid)
    IN IF pid = 0 THEN [db |-> [d EXCEPT !.products = tbl], id |-> 0]
       ELSE LET c == SaveCategories(d.categories, d.product_categories, pid,
                                    p.categories, 1)
            IN [db |-> [products |-> tbl,
                        product_images |->
                            InsertImages(DeleteImages(d.product_images, pid),
                                         pid, p.images),
                        categories |-> c.categories,
                        product_categories |-> c.product_categories],
                id |-> pid]

\* save_product: nothing when the database is disabled; a mysql Error
\* anywhere before the commit leaves the database as it was (the connection
\* is closed uncommitted) and returns None; else the transaction commits
\* and the row's id is returned.
SaveProductCall(p) ==
    IF ~db_enabled
    THEN save_result' = 0 /\ UNCHANGED <<db, saves>>
    ELSE \/ save_result' = 0 /\ UNCHANGED <<db, saves>>
         \/ \E lastrowid \in LastRowIds(db.products, p) :
               LET r == Committed(db, p, lastrowid) IN
               /\ db' = r.db
               /\ save_result' = r.id
               /\ saves' = IF r.id # 0
                           THEN Append(saves, [rec |-> p, id |-> r.id])
                           ELSE saves

\* A call of save_product from outside a batch.
SaveProduct(p) ==
    /\ Len(saves) < MaxSaves
    /\ SaveProductCall(p)
    /\ UNCHANGED <<db_enabled, vars, site, exitVars, moreVars, cookieVars, sanVars,
                   tableVars>>

\* DatabaseRepository.__init__ with the tables just created.
InitDb ==
    /\ db_enabled \in BOOLEAN
    /\ db = EmptyDb
    /\ save_result = 0
    /\ saves = <<>>
    /\ ScrapeIdle /\ CookiesIdle /\ SanIdle /\ TableIdle /\ MoreIdle

NextDb == \E p \in Records : SaveProduct(p)

SpecDb == InitDb /\ [][NextDb]_allVars

\* ===================================================== _inject_cookies
\* Largest number of captured session cookies.
MaxCookies == 3

\* The driver calls _inject_cookies can make for n cookies.
InjectCalls(n) ==
    {<<"get", 0>>, <<"refresh", 0>>} \cup {<<"add_cookie", i>> : i \in 1..n}

\* Lines 97-103: one try block around get, the whole loop and refresh, and
\* a bare except that passes.  The call c either raises, which ends the
\* function, or succeeds and is followed by the position next.
InjectCall(c, next) ==
    IF c \in inj_fails
    THEN inj_pc' = "done" /\ inj_calls' = inj_calls
    ELSE inj_pc' = next /\ inj_calls' = Append(inj_calls, c)

\* Lines 95-96: nothing to inject without captured cookies.
InjectStart ==
    /\ inj_pc = "start"
    /\ inj_pc' = IF inj_cookies = <<>> THEN "done" ELSE "get"
    /\ UNCHANGED <<inj_cookies, inj_fails, inj_calls, vars, site, exitVars, moreVars,
                   dbVars, sanVars, tableVars>>

\* Line 98: driver.get(self.config.base_url).
InjectGet ==
    /\ inj_pc = "get"
    /\ InjectCall(<<"get", 0>>, "add_cookie")
    /\ UNCHANGED <<inj_cookies, inj_fails, vars, site, exitVars, moreVars, dbVars,
                   sanVars, tableVars>>

\* The cookies the loop of line 99 has passed.
NumAdded == Cardinality({k \in 1..Len(inj_calls) : inj_calls[k][1] = "add_cookie"})

\* Lines 99-100: driver.add_cookie for the next cookie of the loop.
InjectAddCookie ==
    /\ inj_pc = "add_cookie"
    /\ NumAdded < Len(inj_cookies)
    /\ InjectCall(<<"add_cookie", inj_cookies[NumAdded + 1]>>, "add_cookie")
    /\ UNCHANGED <<inj_cookies, inj_fails, vars, site, exitVars, moreVars, dbVars,
                   sanVars, tableVars>>

\* Line 101: driver.refresh(), after the loop.
InjectRefresh ==
    /\ inj_pc = "add_cookie"
    /\ NumAdded = Len(inj_cookies)
    /\ InjectCall(<<"refresh", 0>>, "done")
    /\ UNCHANGED <<inj_cookies, inj_fails, vars, site, exitVars, moreVars, dbVars,
                   sanVars, tableVars>>

\* A call of _inject_cookies in a fresh worker session: any number of
\* captured cookies, any of the driver calls raising.
InitCookies ==
    /\ \E n \in 0..MaxCookies :
          /\ inj_cookies = [i \in 1..n |-> i]
          /\ inj_fails \in SUBSET InjectCalls(n)
    /\ inj_pc = "start"
    /\ inj_calls = <<>>
    /\ ScrapeIdle /\ DbIdle /\ SanIdle /\ TableIdle /\ MoreIdle

NextCookies ==
    \/ InjectStart
    \/ InjectGet
    \/ InjectAddCookie
    \/ InjectRefresh

SpecCookies == InitCookies /\ [][NextCookies]_allVars

\* ================================================== _sanitize_filename
\* Longest argument, in characters.
MaxNameLen == 3

LowerLetters == <<"a", "b", "c", "d", "e", "f", "g", "h", "i", "j", "k", "l",
                  "m", "n", "o", "p", "q", "r", "s", "t", "u", "v", "w", "x",
                  "y", "z">>
UpperLetters == <<"A", "B", "C", "D", "E", "F", "G", "H", "I", "J", "K", "L",
                  "M", "N", "O", "P", "Q", "R", "S", "T", "U", "V", "W", "X",
                  "Y", "Z">>
Digits == {"0", "1", "2", "3", "4", "5", "6", "7", "8", "9"}
\* What \s matches, as far as the arguments here go.
Whitespace == {" ", "\t", "\n"}

\* Lines 52-61: the chain of str.replace calls.  A character outside ASCII
\* is written by its Unicode code point.
AzMap ==
    [c \in {"U+018F", "U+0259", "U+0130", "U+0131", "U+00D6", "U+00F6",
            "U+00DC", "U+00FC", "U+015E", "U+015F", "U+00C7", "U+00E7",
            "U+011E", "U+011F"} |->
        CASE c = "U+018F" -> "E" [] c = "U+0259" -> "e"
          [] c = "U+0130" -> "I" [] c = "U+0131" -> "i"
          [] c = "U+00D6" -> "O" [] c = "U+00F6" -> "o"
          [] c = "U+00DC" -> "U" [] c = "U+00FC" -> "u"
          [] c = "U+015E" -> "S" [] c = "U+015F" -> "s"
          [] c = "U+00C7" -> "C" [] c = "U+00E7" -> "c"
          [] c = "U+011E" -> "G" [] c = "U+011F" -> "g"]
Transliterate(chars) ==
    [i \in 1..Len(chars) |->
        IF chars[i] \in DOMAIN AzMap THEN AzMap[chars[i]] ELSE chars[i]]

\* Mutant of Kept: a sanitizer that removes nothing.
KeptAnything(c) == TRUE

\* Line 63: the characters re.sub(r"[^a-zA-Z0-9\s_-]", "", name) keeps.
Kept(c) ==
    \/ c \in Range(LowerLetters) \/ c \in Range(UpperLetters)
    \/ c \in Digits \/ c \in Whitespace
    \/ c \in {"_", "-"}

RemoveSpecial(chars) == SelectSeq(chars, Kept)

\* Line 65: re.sub(r"\s+", "_", name), each run of whitespace becomes one
\* underscore.
RECURSIVE CollapseWhitespace(_)
CollapseWhitespace(chars) ==
    IF chars = <<>> THEN <<>>
    ELSE IF Head(chars) \in Whitespace
         THEN IF Len(chars) > 1 /\ chars[2] \in Whitespace
              THEN CollapseWhitespace(Tail(chars))
              ELSE <<"_">> \o CollapseWhitespace(Tail(chars))
         ELSE <<Head(chars)>> \o CollapseWhitespace(Tail(chars))

\* Line 65: str.strip().
RECURSIVE LStrip(_)
LStrip(chars) ==
    IF chars # <<>> /\ Head(chars) \in Whitespace THEN LStrip(Tail(chars))
    ELSE chars
RECURSIVE RStrip(_)
RStrip(chars) ==
    IF chars # <<>> /\ chars[Len(chars)] \in Whitespace
    THEN RStrip(SubSeq(chars, 1, Len(chars) - 1))
    ELSE chars
Strip(chars) == RStrip(LStrip(chars))

\* Line 65: str.upper(), on the characters that can be left by then.
Upper(chars) ==
    [i \in 1..Len(chars) |->
        IF chars[i] \in Range(LowerLetters)
        THEN UpperLetters[CHOOSE k \in 1..26 : LowerLetters[k] = chars[i]]
        ELSE chars[i]]

\* Lines 49-50: the value returned for a falsy argument.
Placeholder == Str(<<"p", "r", "o", "d", "u", "c", "t">>)

\* _sanitize_filename lines 47-65.
SanitizeFilename(name) ==
    IF name.none \/ name.s = <<>> THEN Placeholder
    ELSE Str(Upper(Strip(CollapseWhitespace(RemoveSpecial(
                 Transliterate(name.s))))))

\* The characters of the arguments: a lower-case and an upper-case letter,
\* a digit, a blank, the underscore, the hyphen, a letter of the
\* Azerbaijani map (small schwa) and a character of no kept class.
NameChars == {"a", "B", "7", " ", "_", "-", "U+0259", "!"}
Names ==
    {StrNone} \cup
    {Str(c) : c \in UNION {[1..n -> NameChars] : n \in 0..MaxNameLen}}

\* The call of scrape_product line 317: self._sanitize_filename(title).
CallSanitize ==
    /\ san_result = NotCalled
    /\ san_result' = SanitizeFilename(san_name)
    /\ UNCHANGED <<san_name, vars, site, exitVars, moreVars, dbVars, cookieVars,
                   tableVars>>

InitSanitize ==
    /\ san_name \in Names
    /\ san_result = NotCalled
    /\ ScrapeIdle /\ DbIdle /\ CookiesIdle /\ TableIdle /\ MoreIdle

NextSanitize == CallSanitize

SpecSanitize == InitSanitize /\ [][NextSanitize]_allVars

\* =================================================== _parse_spec_table
\* Longest specification table, in rows.
MaxRows == 2

\* The words of the cell texts.  "Nomre" and "nomre" stand for the
\* Azerbaijani word of line 185 with a capital and a small initial.
WordLower(w) ==
    CASE w = "OEM" -> "oem"
      [] w = "Nomre" -> "nomre"
      [] w = "Model" -> "model"
      [] OTHER -> w

\* Line 175: cols[0].text.strip().replace(":", "").
RawKey(text) == SelectSeq(Strip(text), LAMBDA w : w # ":")

\* Line 177: cols[1].text.strip(), or None when that is empty.
Value(text) == IF Strip(text) # <<>> THEN Str(Strip(text)) ELSE StrNone

\* Line 182: raw_key.lower().
KeyLower(key) == [i \in 1..Len(key) |-> WordLower(key[i])]

\* Line 185: "oem" in key_lower and the second word in key_lower.
IsOemKey(key) ==
    "oem" \in Range(KeyLower(key)) /\ "nomre" \in Range(KeyLower(key))

\* product.attributes[raw_key] = value.
SetItem(attrs, key, value) ==
    [k \in DOMAIN attrs \cup {key} |-> IF k = key THEN value ELSE attrs[k]]

\* Mutant of OemRowAttributes: an OEM row that is kept out of the map.
OemRowAttributesSkip(attrs, key, value) == attrs

\* Line 188: the attribute map after a row with an OEM key.
OemRowAttributes(attrs, key, value) == SetItem(attrs, key, value)

\* The rows of the table: a row is stale when its find_elements raises,
\* else it has its cells' texts.  Key cells with and without colon, with a
\* colon inside, with the OEM words in either case, alone and together, and
\* blank; value cells empty, blank and with a code.
KeyTexts ==
    {<<"OEM", " ", "Nomre", ":">>, <<"oem", " ", "nomre">>, <<"OEM">>,
     <<" ", "Model", ":">>, <<"Nomre", " ", "Model">>, <<" ">>,
     <<"Model", ":", "X", ":">>}
ValueTexts == {<<>>, <<" ">>, <<"55250-2B000">>, <<" ", "X">>}
Rows ==
    {[stale |-> FALSE, cols |-> <<k, v>>] : k \in KeyTexts, v \in ValueTexts}
    \cup {[stale |-> FALSE, cols |-> <<<<"Model">>>>],
          [stale |-> FALSE, cols |-> <<<<"OEM", " ", "Nomre">>, <<"X">>, <<"Y">>>>],
          [stale |-> TRUE, cols |-> <<>>]}

\* The for loop of line 171 is still running: rows are left and no row
\* consumed so far has raised into the handler of line 194.
Parsing ==
    /\ tbl_i < Len(tbl_rows)
    /\ \A k \in 1..tbl_i : ~tbl_rows[k].stale

\* _parse_spec_table lines 171-191, one pass of the loop body.
ParseRow ==
    /\ Parsing
    /\ tbl_i' = tbl_i + 1
    /\ LET row == tbl_rows[tbl_i + 1] IN
       IF row.stale \/ Len(row.cols) # 2
       THEN UNCHANGED <<product_oem, product_attributes>>
       ELSE LET raw_key == RawKey(row.cols[1])
                value == Value(row.cols[2])
            IN IF raw_key = <<>>
               THEN UNCHANGED <<product_oem, product_attributes>>
               ELSE IF IsOemKey(raw_key)
                    THEN /\ product_oem' = value
                         /\ product_attributes' =
                               OemRowAttributes(product_attributes, raw_key, value)
                    ELSE /\ product_oem' = product_oem
                         /\ product_attributes' =
                               SetItem(product_attributes, raw_key, value)
    /\ UNCHANGED <<tbl_rows, vars, site, exitVars, moreVars, dbVars, cookieVars, sanVars>>

\* _parse_spec_table on a fresh ProductData (scrape_product line 255) with
\* the rows the page gave.
InitTable ==
    /\ tbl_rows \in UNION {[1..n -> Rows] : n \in 0..MaxRows}
    /\ tbl_i = 0
    /\ product_oem = StrNone
    /\ product_attributes = <<>>
    /\ ScrapeIdle /\ DbIdle /\ CookiesIdle /\ SanIdle /\ MoreIdle

NextTable == ParseRow

SpecTable == InitTable /\ [][NextTable]_allVars

\* ============================================= scrape_product, the images
\* Largest number of img elements in the gallery.
MaxImgs == 3

\* A URL or a class attribute is the sequence of its pieces; a piece is
\* chosen so that no substring the code looks for crosses two pieces.
\* `needle in text` of lines 296, 297 and 302.
PieceHas(piece, needle) ==
    \/ piece = needle
    \/ needle = "http" /\ piece \in {"http://", "https://"}
Contains(text, needle) == \E i \in 1..Len(text) : PieceHas(text[i], needle)

\* The truth value of an attribute: None and "" are falsy.
Truthy(v) == ~v.none /\ v.s # <<>>

\* Lines 287-291: data-large_image or data-src or src.
Src(img) ==
    IF Truthy(img.large) THEN img.large
    ELSE IF Truthy(img.datasrc) THEN img.datasrc
    ELSE img.src

\* Lines 293-299: the condition of the first if.
PassesFilter(img, seenUrls) ==
    /\ Truthy(Src(img))
    /\ Src(img).s \notin seenUrls
    /\ Contains(Src(img).s, "http")
    /\ ~Contains(img.class.s, "zoomImg")

\* Lines 301-311: the thumbnail patterns.
ThumbPatterns == {"-100x100.", "-150x150.", "-32x32.", "-24x", "-36x", "-48x"}
IsThumb(src) == \E x \in ThumbPatterns : Contains(src.s, x)

\* The URLs of the gallery: two full-size images, a thumbnail of the first in
\* two of the sizes, a path without scheme, and a data URI (a lazy-loading
\* placeholder) whose SVG text names the http namespace of SVG.
UrlA == <<"https://", "shop/", "a", ".jpg">>
UrlB == <<"http://", "shop/", "b", ".jpg">>
UrlAThumb == <<"https://", "shop/", "a", "-100x100.", "jpg">>
UrlASmall == <<"https://", "shop/", "a", "-24x", "24.jpg">>
UrlRel == <<"/", "shop/", "a", ".jpg">>
UrlData == <<"data:image/svg+xml,", "http://", "www.w3.org/2000/svg">>

\* An img element: its three source attributes and its class attribute (a
\* class attribute is a string, empty when the element has none).
Img(large, datasrc, src, class) ==
    [large |-> large, datasrc |-> datasrc, src |-> src, class |-> class]
Imgs ==
    {Img(Str(UrlA), StrNone, Str(UrlAThumb), Str(<<>>)),
     Img(StrNone, Str(UrlA), StrNone, Str(<<"wp-post-image">>)),
     Img(Str(<<>>), StrNone, Str(UrlB), Str(<<>>)),
     Img(StrNone, StrNone, Str(UrlAThumb), Str(<<>>)),
     Img(StrNone, StrNone, Str(UrlASmall), Str(<<>>)),
     Img(StrNone, StrNone, Str(UrlRel), Str(<<>>)),
     Img(StrNone, StrNone, Str(UrlData), Str(<<>>)),
     Img(StrNone, StrNone, Str(UrlB), Str(<<"zoomImg">>)),
     Img(StrNone, StrNone, StrNone, Str(<<>>))}

\* Every image-step action leaves these alone.
notImageVars == <<config, mainVars, stop_requested, poolVars, workerVars, sess,
                  histVars, site, exitVars, dbVars, cookieVars, sanVars,
                  tableVars, extractVars, hung, batchVars>>

\* Lines 278-281: the gallery and its img elements; without a gallery
\* find_element raises into the handler of line 335.
FindGallery ==
    /\ img_pc = "find"
    /\ img_pc' = IF gallery THEN "loop" ELSE "done"
    /\ UNCHANGED <<download_images, gallery, img_elems, img_i, image_urls,
                   seen, counter, product_images, local_paths, downloads,
                   sharedVars, notImageVars>>

\* Lines 285-313, one pass of the loop body.
ImageLoop ==
    /\ img_pc = "loop"
    /\ img_i < Len(img_elems)
    /\ img_i' = img_i + 1
    /\ LET img == img_elems[img_i + 1] IN
       IF PassesFilter(img, seen) /\ ~IsThumb(Src(img))
       THEN /\ image_urls' = Append(image_urls, Src(img).s)
            /\ seen' = seen \cup {Src(img).s}
       ELSE UNCHANGED <<image_urls, seen>>
    /\ UNCHANGED <<download_images, gallery, img_elems, img_pc, counter,
                   product_images, local_paths, downloads, sharedVars,
                   notImageVars>>

\* Lines 316-318 after the loop: counter = self._get_next_number() (lines
\* 41-45, under the counter lock no other thread holds here), then the
\* folder name from it and the sanitized title.
FolderNaming ==
    /\ img_pc = "loop"
    /\ img_i = Len(img_elems)
    /\ counter_lock = 0
    /\ global_counter' = global_counter + 1
    /\ counter' = global_counter'
    /\ img_pc' = "store"
    /\ UNCHANGED <<download_images, gallery, img_elems, img_i, image_urls,
                   seen, product_images, local_paths, downloads,
                   counter_lock, products_lock, scraped_products,
                   notImageVars>>

\* Mutant of FileNumber: files numbered by the index of enumerate as it is.
FileNumberFromZero(i) == i

\* Line 328: fname = f"{i + 1}.{ext}", i the index of enumerate, from 0.
FileNumber(i) == i + 1

\* The path download_image returns for file number n of the folder (lines
\* 322 and 329, file_repository.py lines 55 and 68; the extension of the
\* name is left out).
LocalPath(folder, n) == <<"images/", folder, "/", n>>

\* Lines 320-321 and 333-334: with downloads on and a URL there, start the
\* download loop with local_paths empty; else keep the URLs.
StoreImages ==
    /\ img_pc = "store"
    /\ IF download_images /\ image_urls # <<>>
       THEN /\ local_paths' = <<>>
            /\ img_pc' = "download"
            /\ product_images' = product_images
       ELSE /\ product_images' = image_urls
            /\ img_pc' = "done"
            /\ local_paths' = local_paths
    /\ UNCHANGED <<download_images, gallery, img_elems, img_i, image_urls,
                   seen, counter, downloads, sharedVars, notImageVars>>

\* Lines 323-331, one pass of the loop body: download_image on the next URL
\* (file_repository.py lines 46-72: the path, or None on any failure); a
\* path is appended to local_paths.
DownloadImage ==
    /\ img_pc = "download"
    /\ Len(downloads) < Len(image_urls)
    /\ LET i == Len(downloads)
           u == image_urls[i + 1]
       IN \E ok \in BOOLEAN :
             /\ downloads' = Append(downloads,
                                [url |-> u, file |-> FileNumber(i),
                                 folder |-> counter, ok |-> ok])
             /\ local_paths' =
                   IF ok THEN Append(local_paths,
                                     LocalPath(counter, FileNumber(i)))
                   ELSE local_paths
    /\ UNCHANGED <<download_images, gallery, img_elems, img_i, image_urls,
                   seen, img_pc, counter, product_images, sharedVars,
                   notImageVars>>

\* Line 332: product.images = local_paths, after the last URL.
AssignLocalPaths ==
    /\ img_pc = "download"
    /\ Len(downloads) = Len(image_urls)
    /\ product_images' = local_paths
    /\ img_pc' = "done"
    /\ UNCHANGED <<download_images, gallery, img_elems, img_i, image_urls,
                   seen, counter, local_paths, downloads, sharedVars,
                   notImageVars>>

\* The image step of scrape_product on a fresh ProductData, with and
\* without a gallery, downloads on and off.
InitImages ==
    /\ download_images \in BOOLEAN
    /\ gallery \in BOOLEAN
    /\ img_elems \in UNION {[1..n -> Imgs] : n \in 0..MaxImgs}
    /\ ~gallery => img_elems = <<>>
    /\ img_i = 0
    /\ image_urls = <<>>
    /\ seen = {}
    /\ img_pc = "find"
    /\ counter = 0
    /\ product_images = <<>>
    /\ local_paths = <<>>
    /\ downloads = <<>>
    /\ ScrapeIdle /\ DbIdle /\ CookiesIdle /\ SanIdle /\ TableIdle
    /\ ExtractIdle /\ hung = 0 /\ BatchIdle

NextImages ==
    \/ FindGallery
    \/ ImageLoop
    \/ FolderNaming
    \/ StoreImages
    \/ DownloadImage
    \/ AssignLocalPaths

SpecImages == InitImages /\ [][NextImages]_allVars

\* ======================================== scrape_product, the field probes
\* How a probe's selector lookup ends: the element is there with a text, it
\* is missing (NoSuchElementException, or an empty list from find_elements),
\* or the driver call fails otherwise (a timeout, a stale element, a dead
\* session).
Outcomes == {"found", "missing", "error"}

\* Every probe leaves these alone.
notExtractVars == <<config, mainVars, stop_requested, poolVars, workerVars,
                    sess, histVars, site, exitVars, dbVars, cookieVars,
                    sanVars, tableVars, imageVars, hung, batchVars,
                    counter_lock,
                    products_lock, scraped_products>>

\* The probe at position `at` ended with outcome o.
Made(at, o) == outcomes' = Append(outcomes, [probe |-> at, outcome |-> o])

\* Lines 344-346: the outer handler; the record is dropped, None returned.
OuterHandler ==
    /\ ext_pc' = "returned"
    /\ ext_result' = "null"
    /\ product' = product

\* Lines 200-206: driver.get(url), then the fresh ProductData.
GetPage ==
    /\ ext_pc = "get"
    /\ \E o \in {"found", "error"} :
          /\ Made("get", o)
          /\ IF o = "error" THEN OuterHandler
             ELSE /\ ext_pc' = "wp_id"
                  /\ product' = NewProduct
                  /\ ext_result' = ext_result
    /\ UNCHANGED <<global_counter, notExtractVars>>

\* Lines 209-216: the container's id, or the next counter value when the
\* lookup fails in any way (bare except).
ProbeWpId ==
    /\ ext_pc = "wp_id"
    /\ \E o \in Outcomes :
          /\ Made("wp_id", o)
          /\ IF o = "found"
             THEN /\ product' = [product EXCEPT !.wp_id = "page"]
                  /\ global_counter' = global_counter
             ELSE /\ counter_lock = 0
                  /\ global_counter' = global_counter + 1
                  /\ product' = [product EXCEPT !.wp_id = "counter"]
    /\ ext_pc' = "title"
    /\ UNCHANGED <<ext_result, notExtractVars>>

\* _extract_text_safe, lines 112-120: the text, or None on NoSuchElement
\* and on every other exception alike.
ExtractTextSafe(o) == IF o = "found" THEN "text" ELSE None

\* Lines 219-221.
ProbeTitle ==
    /\ ext_pc = "title"
    /\ \E o \in Outcomes :
          /\ Made("title", o)
          /\ product' = [product EXCEPT !.title = ExtractTextSafe(o)]
    /\ ext_pc' = "price"
    /\ UNCHANGED <<ext_result, global_counter, notExtractVars>>

\* Lines 224-230: _extract_price (lines 135-146, a bare except around each
\* variant), then the configured selector through _extract_text_safe when no
\* variant gave a text; o2 is the outcome of that second lookup.
ProbePrice ==
    /\ ext_pc = "price"
    /\ \E o, o2 \in Outcomes :
          /\ Made("price", IF o = "found" THEN o ELSE o2)
          /\ product' = [product EXCEPT !.price =
                            IF o = "found" THEN "text" ELSE ExtractTextSafe(o2)]
    /\ ext_pc' = "description"
    /\ UNCHANGED <<ext_result, global_counter, notExtractVars>>

\* Lines 233-235.
ProbeDescription ==
    /\ ext_pc = "description"
    /\ \E o \in Outcomes :
          /\ Made("description", o)
          /\ product' = [product EXCEPT !.description = ExtractTextSafe(o)]
    /\ ext_pc' = "sku"
    /\ UNCHANGED <<ext_result, global_counter, notExtractVars>>

\* Line 244: except NoSuchElementException, the only exception the handler
\* of the first SKU lookup catches.
SkuHandlerCatches(o) == o = "missing"

\* Lines 238-244: the scoped SKU selector.  An exception other than
\* NoSuchElementException passes the handler of line 244 and ends in the
\* outer handler.
ProbeSku ==
    /\ ext_pc = "sku"
    /\ \E o \in Outcomes :
          /\ Made("sku", o)
          /\ IF o = "found"
             THEN /\ product' = [product EXCEPT !.sku = "text"]
                  /\ ext_pc' = "table"
                  /\ ext_result' = ext_result
             ELSE IF SkuHandlerCatches(o)
             THEN /\ ext_pc' = "sku_fallback"
                  /\ UNCHANGED <<product, ext_result>>
             ELSE OuterHandler
    /\ UNCHANGED <<global_counter, notExtractVars>>

\* Lines 246-252: the bare SKU selector, inside a bare except.
ProbeSkuFallback ==
    /\ ext_pc = "sku_fallback"
    /\ \E o \in Outcomes :
          /\ Made("sku_fallback", o)
          /\ product' = IF o = "found" THEN [product EXCEPT !.sku = "text"]
                        ELSE product
    /\ ext_pc' = "table"
    /\ UNCHANGED <<ext_result, global_counter, notExtractVars>>

\* Line 255: _parse_spec_table (lines 153-195, everything inside one try):
\* with rows, an OEM row's value and the rows' attributes; nothing without
\* rows or when a driver call fails before the first row is stored.
ProbeTable ==
    /\ ext_pc = "table"
    /\ \E o \in Outcomes :
          /\ Made("table", o)
          /\ product' = IF o = "found"
                        THEN [product EXCEPT !.oem = "text",
                                             !.attributes = <<"text">>]
                        ELSE product
    /\ ext_pc' = "categories"
    /\ UNCHANGED <<ext_result, global_counter, notExtractVars>>

\* Lines 258-265: the list comprehension assigns a list (empty when no
\* element matches); a failing driver call leaves the default.
ProbeCategories ==
    /\ ext_pc = "categories"
    /\ \E o \in Outcomes :
          /\ Made("categories", o)
          /\ product' = [product EXCEPT !.categories =
                            IF o = "found" THEN <<"text">> ELSE <<>>]
    /\ ext_pc' = "tags"
    /\ UNCHANGED <<ext_result, global_counter, notExtractVars>>

\* Lines 267-274.
ProbeTags ==
    /\ ext_pc = "tags"
    /\ \E o \in Outcomes :
          /\ Made("tags", o)
          /\ product' = [product EXCEPT !.tags =
                            IF o = "found" THEN <<"text">> ELSE <<>>]
    /\ ext_pc' = "images"
    /\ UNCHANGED <<ext_result, global_counter, notExtractVars>>

\* Lines 277-337: the image step.  With a gallery the counter is taken
\* (line 316) and product.images assigned; without one, or when a driver
\* call fails before line 316, the handler of line 335 leaves the default.
ProbeImages ==
    /\ ext_pc = "images"
    /\ \E o \in Outcomes :
          /\ Made("images", o)
          /\ IF o = "found"
             THEN /\ counter_lock = 0
                  /\ global_counter' = global_counter + 1
                  /\ \E imgs \in {<<>>, <<"text">>} :
                        product' = [product EXCEPT !.images = imgs]
             ELSE UNCHANGED <<global_counter, product>>
    /\ ext_pc' = "return"
    /\ UNCHANGED <<ext_result, notExtractVars>>

\* Line 342: return product.
ReturnProduct ==
    /\ ext_pc = "return"
    /\ ext_pc' = "returned"
    /\ ext_result' = "record"
    /\ UNCHANGED <<outcomes, product, global_counter, notExtractVars>>

\* One call of scrape_product.
InitExtract ==
    /\ ext_pc = "get"
    /\ outcomes = <<>>
    /\ product = NewProduct
    /\ ext_result = "none"
    /\ ScrapeIdle /\ DbIdle /\ CookiesIdle /\ SanIdle /\ TableIdle
    /\ ImagesIdle /\ hung = 0 /\ BatchIdle

NextExtract ==
    \/ GetPage
    \/ ProbeWpId
    \/ ProbeTitle
    \/ ProbePrice
    \/ ProbeDescription
    \/ ProbeSku
    \/ ProbeSkuFallback
    \/ ProbeTable
    \/ ProbeCategories
    \/ ProbeTags
    \/ ProbeImages
    \/ ReturnProduct

SpecExtract == InitExtract /\ [][NextExtract]_allVars

\* ==================================================== scheduling, fairness
\* The coordinating thread's steps.
MainThread ==
    \/ CreateMainDriver
    \/ PerformLogin
    \/ LinksTop
    \/ LinksLoad
    \/ LinksDone
    \/ Submit
    \/ AsCompleted
    \/ Drain
    \/ ExitWith
    \/ Join
    \/ Run
    \/ MainExit

\* Thread t is inside a browser call (driver.get, a probe) for the unit
\* whose page may hang: a call that need not return.
MayHang(t) == cur[t] = hung /\ pc[t] \in {"nav", "probe"}

\* A run against a site on which the page of one unit may hang the session
\* that loads it, with a pool of at least two threads, with login (so that
\* every step of a run is taken) and without a cap (so that the pool gets
\* every link of the listing).
InitHang ==
    /\ config \in {c \in Configs : /\ c.max_threads >= 2
                                   /\ c.login_enabled /\ ~c.test_mode}
    /\ ServiceInit
    /\ site = DefaultSite
    /\ ExitIdle
    /\ DbIdle /\ CookiesIdle /\ SanIdle /\ TableIdle
    /\ ImagesIdle /\ ExtractIdle /\ BatchIdle
    /\ hung \in Units

\* The operating system runs every thread that can take a step: the
\* coordinating thread and every pool thread, but for a browser call on the
\* hanging page, which may never return.  The signal of request_stop may
\* never come.
SpecHang ==
    /\ InitHang
    /\ [][Next]_allVars
    /\ WF_allVars(MainThread)
    /\ \A t \in Threads : WF_allVars(Worker(t) /\ ~MayHang(t))

\* ================================================== save_products_batch
\* Longest batch, in records.
MaxBatch == 3

\* The records of a batch: with and without sku, with either title.
BatchRecords ==
    {p \in Records : p.wp_id = "3785" /\ p.images = <<>> /\ p.categories = <<>>}

\* Every step of save_products_batch leaves these alone.
notBatchVars == <<vars, site, exitVars, cookieVars, sanVars, tableVars,
                  imageVars, extractVars, hung, db_enabled>>

\* Lines 230-235: return 0 when the database is disabled, else take db_lock
\* with saved_count = 0.
BatchEnter ==
    /\ batch_pc = "call"
    /\ IF ~db_enabled
       THEN /\ batch_result' = 0
            /\ batch_pc' = "returned"
            /\ UNCHANGED <<db_lock, saved_count>>
       ELSE /\ ~db_lock
            /\ db_lock' = TRUE
            /\ saved_count' = 0
            /\ batch_pc' = "loop"
            /\ batch_result' = batch_result
    /\ UNCHANGED <<batch, batch_i, attempts, db, save_result, saves,
                   notBatchVars>>

\* Mutant of AfterSave: a loop that a failed save ends.
AfterSaveBreak(result) == IF result = 0 THEN "exit" ELSE "loop"

\* Lines 236-238: whatever save_product returned, the for loop goes on
\* (save_product raises no mysql Error, lines 224-226).
AfterSave(result) == "loop"

\* Lines 236-238, one pass of the loop body: save_product on the next
\* record, counted when it returned a product id.
BatchSave ==
    /\ batch_pc = "loop"
    /\ batch_i < Len(batch)
    /\ SaveProductCall(batch[batch_i + 1])
    /\ batch_i' = batch_i + 1
    /\ saved_count' = IF save_result' # 0 THEN saved_count + 1 ELSE saved_count
    /\ attempts' = Append(attempts, [rec |-> batch[batch_i + 1],
                                     result |-> save_result'])
    /\ batch_pc' = AfterSave(save_result')
    /\ UNCHANGED <<batch, db_lock, batch_result, notBatchVars>>

\* Lines 235 and 240-241: the loop is over, db_lock is released and
\* saved_count returned.
BatchReturn ==
    /\ batch_pc \in {"loop", "exit"}
    /\ batch_pc = "loop" => batch_i = Len(batch)
    /\ db_lock' = FALSE
    /\ batch_result' = saved_count
    /\ batch_pc' = "returned"
    /\ UNCHANGED <<batch, batch_i, saved_count, attempts, db, save_result,
                   saves, notBatchVars>>

\* One call of save_products_batch on the tables just created.
InitBatch ==
    /\ batch \in UNION {[1..n -> BatchRecords] : n \in 0..MaxBatch}
    /\ batch_i = 0
    /\ saved_count = 0
    /\ batch_pc = "call"
    /\ db_lock = FALSE
    /\ batch_result = -1
    /\ attempts = <<>>
    /\ db_enabled \in BOOLEAN
    /\ db = EmptyDb
    /\ save_result = 0
    /\ saves = <<>>
    /\ ScrapeIdle /\ CookiesIdle /\ SanIdle /\ TableIdle
    /\ ImagesIdle /\ ExtractIdle /\ hung = 0

NextBatch == BatchEnter \/ BatchSave \/ BatchReturn

SpecBatch == InitBatch /\ [][NextBatch]_allVars

\* ------------------------------------------------------------------ claims
\* Positions of scrape_all from the submission of the work units on.
PoolPcs == {"submit", "as_completed", "drain", "exit_with", "join", "returned"}

\* The dispatch loop has seen the flag: it is draining the queue, or it
\* left the loop before as_completed had yielded every future.
Observed ==
    \/ mainpc = "drain"
    \/ mainpc \in {"exit_with", "join", "returned"} /\ numSeen < Len(links)

\* The unit with index i has appended its record to the result list.
HasAppended(i) ==
    \/ unit[i] = "record"
    \/ \E t \in Threads : cur[t] = i /\ pc[t] = "close" /\ prod[t]

\* Number of entries of the result list with source URL u.
Entries(u) ==
    Cardinality({k \in 1..Len(scraped_products) : scraped_products[k].url = u})

\* C1: when login is enabled and the login step fails, scrape_all aborts the
\* run: no listing page is loaded, no work unit is submitted or started, and
\* scrape_all does not return a result as if nothing had happened.
C1_LoginFailureAborts ==
    loginFailed =>
        /\ pagesLoaded = 0
        /\ submitted = 0
        /\ numThreads = 0
        /\ retval = "none"

\* C2 (as stated): once the stop flag is set, no step opens a browser
\* session for a work unit or navigates to a product URL.
C2_NothingBeginsAfterStop ==
    [][stop_requested =>
          /\ \A u \in Units : sess[u].st = "none" => sess'[u].st = "none"
          /\ navCount' = navCount]_vars

\* C2 (amended): a work unit whose entry check runs when the stop flag is
\* set is skipped: it ends without a browser session and without a
\* navigation.
C2_EntryCheckAfterStopSkips ==
    [][\A t \in Threads :
          (pc[t] = "check" /\ stop_requested /\ pc'[t] # "check") =>
              /\ pc'[t] = "idle"
              /\ unit'[cur[t]] = "skipped"
              /\ sess'[cur[t]].st = "none"
              /\ navCount' = navCount]_vars

C2_Witness ==
    /\ stop_requested
    /\ \E u \in Units : unit[u] = "skipped" /\ sess[u].st = "none"
    /\ \E v \in Units : unit[v] = "record"

\* C3: a unit that is mid-extraction when the flag is set runs to its end;
\* scrape_all returns only after every worker has ended, the returned list
\* then holds exactly the records of the units that completed with a
\* record, and it is not changed after scrape_all has returned.
C3_ReturnAfterAllFinished ==
    /\ [](mainpc = "returned" /\ retval = "products" =>
            /\ \A t \in 1..numThreads : pc[t] = "exited"
            /\ \A u \in midAtStop : unit[u] \in {"record", "null"}
            /\ \A i \in 1..Len(links) : unit[i] \in DoneStates
            /\ \A u \in Urls :
                  Entries(u) = Cardinality({i \in 1..Len(links) :
                                   links[i] = u /\ unit[i] = "record"}))
    /\ [][mainpc = "returned" => scraped_products' = scraped_products]_vars

C3_Witness ==
    /\ mainpc = "returned"
    /\ \E u \in midAtStop : unit[u] = "record"
    /\ Len(scraped_products) >= 1

C5_CounterLinearizable ==
    /\ Range(allocated) = 1..Len(allocated)
    /\ \A i, j \in 1..Len(allocated) : i # j => allocated[i] # allocated[j]

C5_Witness ==
    /\ Len(allocated) >= 2
    /\ \E t1, t2 \in Threads :
          t1 # t2 /\ pc[t1] = "c_write" /\ pc[t2] = "c_enter"

\* C6: at every moment the result list holds exactly one entry for each
\* unit that has appended its record and no other entry, so no record is
\* lost, duplicated or dropped again; when scrape_all returns these are the
\* units whose extraction returned a record.
C6_ResultListAppendOnly ==
    /\ \A u \in Urls :
          Entries(u) = Cardinality({i \in 1..Len(links) :
                                       links[i] = u /\ HasAppended(i)})
    /\ \A k \in 1..Len(scraped_products) : scraped_products[k].url \in Urls
    /\ mainpc = "returned" /\ retval = "products" =>
          \A i \in 1..Len(links) : HasAppended(i) <=> unit[i] = "record"

C6_Witness ==
    /\ \E t1, t2 \in Threads :
          t1 # t2 /\ pc[t1] = "a_app" /\ pc[t2] = "append"

\* C7: the links handed to the pool are pairwise distinct, no product URL is
\* navigated to more than once, no two workers hold the same unit, and the
\* result list never has two records with the same source URL.
C7_EachUrlOnce ==
    /\ mainpc \in PoolPcs =>
          \A i, j \in 1..Len(links) : i # j => links[i] # links[j]
    /\ \A u \in Urls : navCount[u] <= 1
    /\ \A t1, t2 \in Threads : t1 # t2 /\ cur[t1] # 0 => cur[t1] # cur[t2]
    /\ \A u \in Urls : Entries(u) <= 1

C7_Witness ==
    /\ mainpc = "returned"
    /\ pagesLoaded = NumPages
    /\ Len(scraped_products) = Cardinality(Urls)

\* C8: as long as no stop was requested, a failure inside one unit cancels
\* or skips no other unit, and when scrape_all returns every submitted unit
\* was processed to its own end and every unit that produced a record has
\* it in the result list.
C8_FailureIsolated ==
    ~stop_requested =>
        /\ \A i \in Units : unit[i] \notin {"cancelled", "skipped"}
        /\ mainpc = "returned" /\ retval = "products" =>
              \A i \in 1..Len(links) :
                  /\ unit[i] \in {"record", "null", "crashed"}
                  /\ unit[i] = "record" => Entries(links[i]) = 1

C8_Witness ==
    /\ ~stop_requested
    /\ mainpc = "returned"
    /\ config.max_threads = 1
    /\ unit[1] \in {"crashed", "null"}
    /\ unit[2] = "record"

\* C9: a session that was quit had close attempted first; a unit that has
\* ended leaves no session open, whatever its outcome; no worker session is
\* open once scrape_all has returned.
C9_SessionsClosed ==
    \A u \in Units :
        /\ sess[u].st = "quit" => sess[u].ops = <<"close", "quit">>
        /\ unit[u] \in DoneStates => sess[u].st # "open"
        /\ mainpc = "returned" => sess[u].st # "open"

C9_Witness ==
    /\ mainpc = "returned"
    /\ \E u, v \in Units :
          /\ unit[u] = "null" /\ sess[u].st = "quit"
          /\ unit[v] = "record" /\ sess[v].st = "quit"

\* C10: at most max_threads worker threads exist, at most max_threads units
\* are executing, at most max_threads worker sessions are open, and no
\* session is navigated by two units.
C10_PoolBounded ==
    /\ numThreads <= config.max_threads
    /\ Cardinality({t \in Threads : pc[t] \notin {"unborn", "idle", "exited"}})
          <= config.max_threads
    /\ Cardinality({u \in Units : sess[u].st = "open"}) <= config.max_threads
    /\ \A u \in Units : Cardinality(sess[u].users) <= 1

C10_Witness ==
    /\ config.max_threads = 1
    /\ Len(links) = 2
    /\ \E u, v \in Units : sess[u].st = "open" /\ unit[v] = "queued"


\* C17: a process that ended after run returned no record has status 1
\* although scrape_all returned normally, and a process that ended after
\* run returned records has status 0, whether or not a stop was requested
\* and units were cancelled or skipped; the status is 0 in no other case.
C17_ExitStatusReportsRecords ==
    exit_status # -1 =>
        /\ run_result = "empty" =>
              /\ exit_status = 1
              /\ mainpc = "returned" /\ Returned = <<>>
        /\ run_result = "records" =>
              /\ exit_status = 0
              /\ mainpc = "returned" /\ Len(Returned) >= 1
        /\ exit_status = 0 => run_result = "records"

C17_Witness ==
    /\ exit_status = 1
    /\ run_result = "empty"
    /\ retval = "products"
    /\ \E i \in Units : unit[i] = "null"
    /\ \E i \in Units : unit[i] = "cancelled"

\* ------------------------------------------------- claims on the database
\* The index in saves of the last successful save that wrote the row id.
LastSaveOf(id) ==
    CHOOSE k \in 1..Len(saves) :
        /\ saves[k].id = id
        /\ \A m \in (k + 1)..Len(saves) : saves[m].id # id

\* The index in saves of the last successful save of the identifier w.
LastSaveOfWpId(w) ==
    CHOOSE k \in 1..Len(saves) :
        /\ saves[k].rec.wp_id = w
        /\ \A m \in (k + 1)..Len(saves) : saves[m].rec.wp_id # w

\* C11: two successful saves of records with the same external identifier
\* (wp_id) and different field values went to one product row, and the
\* scalar columns of that row hold the values of the last save of that
\* identifier.
C11_UpsertKeyedOnExternalId ==
    \A i, j \in 1..Len(saves) :
        (i < j /\ saves[i].rec.wp_id = saves[j].rec.wp_id
               /\ saves[i].rec # saves[j].rec) =>
            /\ saves[i].id = saves[j].id
            /\ LET last == saves[LastSaveOfWpId(saves[j].rec.wp_id)] IN
               \E r \in db.products :
                   /\ r.id = last.id
                   /\ r.title = last.rec.title
                   /\ r.sku = last.rec.sku

CategoriesOf(id) ==
    {c.name : c \in {c \in db.categories :
                        [product_id |-> id, category_id |-> c.id]
                            \in db.product_categories}}

\* C13: the categories associated with a product row are exactly the
\* categories of the last successful save that wrote the row.
C13_CategoriesOfLastSave ==
    \A r \in db.products :
        \A k \in 1..Len(saves) :
            k = LastSaveOf(r.id) => CategoriesOf(r.id) = Range(saves[k].rec.categories)


\* C32: saves of records with different external identifiers (wp_id) never
\* merge: two successful saves with different identifiers wrote different
\* product rows, and the title and the image rows of the row written for an
\* identifier are those of the last save of that identifier.
C32_IdentifiersNeverMerged ==
    \A i, j \in 1..Len(saves) :
        saves[i].rec.wp_id # saves[j].rec.wp_id =>
            /\ saves[i].id # saves[j].id
            /\ LET last == saves[LastSaveOfWpId(saves[i].rec.wp_id)] IN
               /\ \E r \in db.products :
                      r.id = last.id /\ r.title = last.rec.title
               /\ {x.image_url : x \in {x \in db.product_images :
                                            x.product_id = last.id}}
                      = Range(last.rec.images)

\* ------------------------------------------------- claims on discovery
\* The links of the first n pages of the listing, in page order.
RECURSIVE FirstPages(_)
FirstPages(n) == IF n = 0 THEN <<>> ELSE FirstPages(n - 1) \o site[n]

\* A cap is configured and at least that many links are collected.
CapHit == config.test_mode /\ Len(links) >= config.test_limit

\* get_product_links has left its loop (line 435) on its own account: no
\* stop was requested, every page it asked for gave its links, and the loop
\* ended at the cap or at a page without next-page control.
Undisturbed ==
    /\ mainpc = "links_done"
    /\ ~stop_requested
    /\ pagesLoaded = curr
    /\ links = FirstPages(pagesLoaded)
    /\ (CapHit \/ NextPage(curr) = 0)

\* C14: with a cap K and a listing of more than K products over several
\* pages, an undisturbed get_product_links returns exactly K URLs, all
\* distinct.
C14_CapReturnsExactlyK ==
    [][(/\ Undisturbed
        /\ config.test_mode
        /\ Len(site) > 1
        /\ Cardinality(Range(FirstPages(Len(site)))) > config.test_limit) =>
           /\ Len(links') = config.test_limit
           /\ \A i, j \in 1..Len(links') : i # j => links'[i] # links'[j]]_vars

\* The smallest number of pages whose links number at least k (the whole
\* listing when it holds fewer).
PagesNeeded(k) ==
    IF \E n \in 1..Len(site) : Len(FirstPages(n)) >= k
    THEN CHOOSE n \in 1..Len(site) :
            /\ Len(FirstPages(n)) >= k
            /\ \A m \in 1..(n - 1) : Len(FirstPages(m)) < k
    ELSE Len(site)

\* C15: with a cap K, no page is loaded once K links are collected; a page
\* load that reaches the cap ends the loop at once; and an undisturbed
\* discovery has loaded exactly the smallest number of pages whose links
\* number K, which is never more than the pages needed for K distinct URLs.
C15_NoLoadBeyondCap ==
    /\ [](Undisturbed /\ config.test_mode =>
            /\ pagesLoaded = PagesNeeded(config.test_limit)
            /\ \A n \in 1..Len(site) :
                  Cardinality(Range(FirstPages(n))) >= config.test_limit
                      => pagesLoaded <= n)
    /\ [][pagesLoaded' # pagesLoaded =>
             /\ ~CapHit
             /\ pagesLoaded' = pagesLoaded + 1
             /\ (config.test_mode /\ Len(links') >= config.test_limit
                    => mainpc' = "links_done")]_vars

C15_Witness ==
    /\ Undisturbed
    /\ config.test_mode /\ config.test_limit = 3
    /\ Len(site) = 3
    /\ pagesLoaded = 2

\* ------------------------------------------- claims on cookie injection
\* C16: once the base URL is loaded, every cookie whose own attachment does
\* not fail is attached, in order after the navigation, and the reload
\* follows whether or not an attachment failed.
C16_CookieFailuresIgnoredIndividually ==
    (inj_pc = "done" /\ inj_cookies # <<>> /\ <<"get", 0>> \notin inj_fails) =>
        /\ inj_calls[1] = <<"get", 0>>
        /\ \A i \in 1..Len(inj_cookies) :
              <<"add_cookie", i>> \notin inj_fails
                  => <<"add_cookie", i>> \in Range(inj_calls)
        /\ <<"refresh", 0>> \notin inj_fails
              => inj_calls[Len(inj_calls)] = <<"refresh", 0>>


\* ------------------------------------------------ claims on the sanitizer
\* C18 (as stated): every returned string is made only of characters in
\* [A-Z0-9_].
C18_OnlyUpperDigitsUnderscore ==
    san_result # NotCalled =>
        /\ ~san_result.none
        /\ \A i \in 1..Len(san_result.s) :
              san_result.s[i] \in Range(UpperLetters) \cup Digits \cup {"_"}

\* C18 (amended): the call returns a string for every argument; for a
\* non-empty argument it is made only of characters in [A-Z0-9_-], and for
\* an empty argument (None or "") it is the lower-case placeholder.
C18_OnlyUpperDigitsUnderscoreHyphen ==
    san_result # NotCalled =>
        /\ ~san_result.none
        /\ IF san_name.none \/ san_name.s = <<>>
           THEN san_result.s = <<"p", "r", "o", "d", "u", "c", "t">>
           ELSE \A i \in 1..Len(san_result.s) :
                   san_result.s[i]
                       \in Range(UpperLetters) \cup Digits \cup {"_", "-"}

C18_Witness ==
    /\ san_name = Str(<<"a", "-", "U+0259">>)
    /\ san_result = Str(<<"A", "-", "E">>)

\* C19: for None, for "" and for an argument of whitespace only the call
\* returns the placeholder.
C19_BlankGivesPlaceholder ==
    (/\ san_result # NotCalled
     /\ \/ san_name.none
        \/ \A i \in 1..Len(san_name.s) : san_name.s[i] \in Whitespace) =>
        san_result = Placeholder


\* -------------------------------------- claims on the specification table
\* The rows the loop has gone through that have two cells and an OEM key.
OemRowsParsed ==
    {k \in 1..tbl_i :
        /\ \A m \in 1..k : ~tbl_rows[m].stale
        /\ Len(tbl_rows[k].cols) = 2
        /\ RawKey(tbl_rows[k].cols[1]) # <<>>
        /\ IsOemKey(RawKey(tbl_rows[k].cols[1]))}

\* C20: the loop pass over a two-cell row with an OEM key sets product.oem
\* to the row's value and puts the same key and value into the attribute
\* map; at every moment the OEM field is the value of the last such row and
\* that row's key maps to the same value, and the field is unset while no
\* such row was parsed.
C20_OemFieldAndAttribute ==
    /\ [](IF OemRowsParsed = {} THEN product_oem = StrNone
          ELSE LET k == CHOOSE n \in OemRowsParsed :
                            \A m \in OemRowsParsed : m <= n
                   key == RawKey(tbl_rows[k].cols[1])
                   value == Value(tbl_rows[k].cols[2])
               IN /\ product_oem = value
                  /\ key \in DOMAIN product_attributes
                  /\ product_attributes[key] = value)
    /\ [][(tbl_i' \in OemRowsParsed' /\ tbl_i' = tbl_i + 1) =>
             LET key == RawKey(tbl_rows[tbl_i'].cols[1])
                 value == Value(tbl_rows[tbl_i'].cols[2])
             IN /\ product_oem' = value
                /\ key \in DOMAIN product_attributes'
                /\ product_attributes'[key] = value]_tableVars

C20_Witness ==
    /\ tbl_i = 2
    /\ tbl_rows[1].cols = <<<<"OEM", " ", "Nomre", ":">>, <<"55250-2B000">>>>
    /\ tbl_rows[2].cols = <<<<" ", "Model", ":">>, <<" ", "X">>>>
    /\ product_oem = Str(<<"55250-2B000">>)
    /\ DOMAIN product_attributes = {<<"OEM", " ", "Nomre">>, <<"Model">>}

\* The rows the loop has gone through that have two cells.
TwoCellRowsParsed ==
    {k \in 1..tbl_i :
        /\ \A m \in 1..k : ~tbl_rows[m].stale
        /\ Len(tbl_rows[k].cols) = 2}

\* A key cell's text without its surrounding whitespace and without one
\* colon at its end.
StripTrailingColon(text) ==
    LET s == Strip(text)
    IN IF s # <<>> /\ s[Len(s)] = ":" THEN SubSeq(s, 1, Len(s) - 1) ELSE s

\* C21: every two-cell row the loop has gone through has an entry in the
\* attribute map under its key cell's text with only a colon at the end
\* stripped, no such row is left out, and the entry is None when the value
\* cell of the last row with that key is empty.
C21_EveryRowUnderTrailingColonKey ==
    \A k \in TwoCellRowsParsed :
        LET key == StripTrailingColon(tbl_rows[k].cols[1])
        IN /\ key \in DOMAIN product_attributes
           /\ (/\ Value(tbl_rows[k].cols[2]) = StrNone
               /\ \A m \in TwoCellRowsParsed :
                     m > k => StripTrailingColon(tbl_rows[m].cols[1]) # key)
              => product_attributes[key] = StrNone

\* ------------------------------------------------ claims on the image step
\* The candidate has an http or https scheme.
HasHttpScheme(c) == Truthy(c) /\ c.s[1] \in {"http://", "https://"}

\* The candidates of the first n img elements without those that lack an
\* http(s) scheme, without those that match a thumbnail pattern, and without
\* repetitions, in first-seen order.
RECURSIVE FilteredCandidates(_)
FilteredCandidates(n) ==
    IF n = 0 THEN <<>>
    ELSE LET before == FilteredCandidates(n - 1)
             c == Src(img_elems[n])
         IN IF HasHttpScheme(c) /\ ~IsThumb(c) /\ c.s \notin Range(before)
            THEN Append(before, c.s)
            ELSE before

\* C22: at every point of the image step, the resolved URL list is the
\* sequence of the candidates gone through so far with the candidates
\* without http(s) scheme removed, the thumbnail-size candidates removed and
\* duplicates removed keeping the first occurrence.
C22_UrlsAreFilteredCandidates == image_urls = FilteredCandidates(img_i)

\* C30: when the image step is over, it has taken exactly one value from
\* the counter if downloads are enabled and a URL survived the filter, and
\* has left the counter as it was (0 at the start of the step) otherwise.
C30_CounterOnlyForDownloads ==
    img_pc = "done" =>
        global_counter = IF download_images /\ image_urls # <<>> THEN 1 ELSE 0

\* ----------------------------------------------- claims on the field probes
\* The probes made so far, and whether the page was loaded.
ProbesMade == {outcomes[i].probe : i \in 1..Len(outcomes)}
PageLoaded == \E i \in 1..Len(outcomes) :
                 outcomes[i].probe = "get" /\ outcomes[i].outcome = "found"
FieldProbes == {"wp_id", "title", "price", "description", "sku", "table",
                "categories", "tags", "images"}

\* C23: once scrape_product has returned from a loaded page, (1) if every
\* selector it looked up was missing, it returned a record whose title,
\* price, description, SKU and OEM are unset and whose tags, attributes,
\* images and categories are empty containers, and (2) whatever way single
\* probes failed, every field probe was made: none was cut off by the
\* failure of an earlier one.
C23_ProbesIndependent ==
    (ext_pc = "returned" /\ PageLoaded) =>
        /\ (\A i \in 1..Len(outcomes) :
               outcomes[i].probe # "get" => outcomes[i].outcome = "missing")
           => /\ ext_result = "record"
              /\ product = [NewProduct EXCEPT !.wp_id = "counter"]
        /\ FieldProbes \subseteq ProbesMade

\* ------------------------------------------------------- claims on the locks
\* The positions in which a worker is inside a browser or network call:
\* create_driver, driver.get, the field probes, close and quit.
BlockingPcs == {"create", "nav", "probe", "close"}

\* C24: a worker that is inside a browser or network call holds neither
\* the counter lock nor the result-list lock; the counter lock is held only
\* by a thread between the read and the write of the increment, the
\* result-list lock only by a thread about to append.
C24_NoLockInBlockingCall ==
    \A t \in Threads :
        /\ pc[t] \in BlockingPcs => counter_lock # t /\ products_lock # t
        /\ counter_lock = t => pc[t] = "c_write"
        /\ products_lock = t => pc[t] = "a_app"

\* One worker is inside a browser call while another holds a lock.
C24_Witness ==
    \E t, u \in Threads :
        /\ pc[t] \in BlockingPcs
        /\ \/ counter_lock = u /\ pc[u] = "c_write"
           \/ products_lock = u /\ pc[u] = "a_app"

\* ------------------------------------------------------ claims on fairness
\* A unit was taken by a worker and ran to the end of scrape_product_worker.
Processed == {"record", "null", "crashed", "skipped"}

\* C25: with a pool of at least two threads and one unit that may hang in
\* its browser session forever, every other unit that is submitted is
\* eventually taken and processed (unless a stop is requested, which cancels
\* queued units).
C25_OthersStillProcessed ==
    \A u \in Units :
        (config.max_threads >= 2 /\ u # hung /\ unit[u] = "queued")
            ~> (unit[u] \in Processed \/ stop_requested)

\* The hanging unit is still inside driver.get while a unit submitted after
\* it has been processed to a record.
C25_Witness ==
    \E t \in Threads, u \in Units :
        /\ cur[t] = hung /\ pc[t] = "nav"
        /\ u > hung /\ unit[u] = "record"
        /\ ~stop_requested

\* ------------------------------------------- claims on discovery and the flag
\* C26 as stated: once the stop flag is set, no further listing page is
\* loaded.
C26_NoLoadOnceFlagSet ==
    [][stop_requested => pagesLoaded' = pagesLoaded]_allVars

\* C26, amended: get_product_links reads the flag at the head of each loop
\* iteration.  An iteration that starts with the flag set loads nothing and
\* leaves the loop; a page is loaded only by an iteration whose check found
\* the flag unset, so at most the one page whose check had already passed
\* is loaded after the flag is set; and the links returned are the links
\* collected so far, cut to the cap in test mode and without repetitions.
C26_FlagReadAtLoopHead ==
    [][/\ (stop_requested /\ mainpc = "links_top") => mainpc' # "links_load"
       /\ pagesLoaded' # pagesLoaded => mainpc = "links_load"
       /\ (mainpc' = "links_load" /\ mainpc # "links_load")
             => (mainpc = "links_top" /\ ~stop_requested)
       /\ (mainpc = "links_done" /\ mainpc' # "links_done")
             => Range(links') =
                   Range(IF config.test_mode
                         THEN Truncate(links, config.test_limit) ELSE links)
      ]_allVars

\* Discovery has left the loop at its head because of the flag, with links
\* collected and the next page not loaded.
C26_Witness ==
    /\ stop_requested
    /\ mainpc = "links_done"
    /\ links # <<>>
    /\ curr = pagesLoaded + 1
    /\ ~CapHit

\* The last page asked for failed to load or to parse: every page before
\* it gave its links, and this page, which shows links, gave none.
LastLoadFailed ==
    /\ mainpc = "links_done"
    /\ pagesLoaded = curr
    /\ curr >= 1
    /\ PageLinks(curr) # <<>>
    /\ links = FirstPages(curr - 1)

\* C27: a listing page that fails to load or to parse raises nothing out of
\* get_product_links: the step leaves the loop with the links list as it was,
\* and get_product_links then returns every link of the pages before the
\* failing one.
C27_FailedPageEndsDiscovery ==
    [][/\ (/\ mainpc = "links_load"
           /\ pagesLoaded' # pagesLoaded
           /\ links' # links \o PageLinks(curr))
          => (mainpc' = "links_done" /\ links' = links /\ curr' = curr)
       /\ (LastLoadFailed /\ mainpc' # "links_done")
          => (/\ Range(links') = Range(FirstPages(curr - 1))
              /\ mainpc' \in {"submit", "returned"})
      ]_allVars

\* get_product_links has returned after its second page failed, with the
\* links of its first page.
C27_Witness ==
    /\ mainpc = "submit"
    /\ pagesLoaded = 2
    /\ curr = 2
    /\ PageLinks(2) # <<>>
    /\ links # <<>>
    /\ Range(links) = Range(PageLinks(1))
    /\ Range(PageLinks(2)) \ Range(PageLinks(1)) # {}

\* ------------------------------------------------- claims on the batch save
\* C28: when save_products_batch has returned from an enabled database,
\* save_product was called once for every record of the batch, in the
\* order of the batch, whatever the earlier calls returned, and the count
\* returned is the number of calls that returned a product id.
C28_BatchAttemptsEveryRecord ==
    (batch_pc = "returned" /\ db_enabled) =>
        /\ Len(attempts) = Len(batch)
        /\ \A i \in 1..Len(attempts) : attempts[i].rec = batch[i]
        /\ batch_result =
              Cardinality({i \in 1..Len(attempts) : attempts[i].result # 0})

\* A batch has returned in which a save failed and a later one succeeded.
C28_Witness ==
    /\ batch_pc = "returned"
    /\ db_enabled
    /\ \E i, j \in 1..Len(attempts) :
          i < j /\ attempts[i].result = 0 /\ attempts[j].result # 0
    /\ batch_result >= 1
    /\ batch_result < Len(batch)

\* ------------------------------------------------ claims on the identifiers
\* The identifier of the k-th record of the result list did not come from
\* its page, so it came from the counter.
Synthesized(k) ==
    scraped_products[k].wp_id # PageId(scraped_products[k].url)

\* C29: every record of the result list has an identifier, and an identifier
\* that came from the counter differs from the identifier of every other
\* record of the list, whether that one came from its page or from the
\* counter.
C29_SynthesizedIdUnique ==
    \A i \in 1..Len(scraped_products) :
        /\ scraped_products[i].wp_id # 0
        /\ \A j \in 1..Len(scraped_products) :
              (i # j /\ Synthesized(i))
                 => scraped_products[i].wp_id # scraped_products[j].wp_id

\* -------------------------------------------------- claims on the downloads
\* The calls of download_image that returned a path, in call order.
Succeeded == SelectSeq(downloads, LAMBDA d : d.ok)

\* C31: with downloads on, download_image is called on the surviving URLs
\* one after the other in their order, the i-th (from 1) under file number
\* i of this product's folder, and when the image step is over the record's
\* image list is the paths of the calls that succeeded, in call order; with
\* downloads off the image list is the surviving URL list as it is.
C31_DownloadsInGalleryOrder ==
    /\ Len(downloads) <= Len(image_urls)
    /\ \A i \in 1..Len(downloads) :
          /\ downloads[i].url = image_urls[i]
          /\ downloads[i].file = i
          /\ downloads[i].folder = counter
    /\ downloads # <<>> => download_images
    /\ (img_pc = "done" /\ counter # 0) =>
          IF download_images /\ image_urls # <<>>
          THEN /\ Len(downloads) = Len(image_urls)
               /\ product_images =
                     [k \in 1..Len(Succeeded) |->
                         <<"images/", counter, "/", Succeeded[k].file>>]
          ELSE product_images = image_urls

\* Three URLs survived; the second download failed, the first and the
\* third gave the image list.
C31_Witness ==
    /\ img_pc = "done"
    /\ download_images
    /\ Len(image_urls) = 3
    /\ Len(downloads) = 3
    /\ downloads[1].ok /\ ~downloads[2].ok /\ downloads[3].ok
    /\ Len(product_images) = 2

\* C33: without a cap, on a listing whose pages are chained by their
\* next-page controls without a link back, get_product_links leaves its
\* loop: the k-th page load is the load of page k, so no page is loaded
\* twice and at most Len(site) pages are loaded; the loop goes on after a
\* load only to the page of the next-page control, and a page that was
\* loaded and has no such control ends the loop.
C33_UncappedDiscoveryTerminates ==
    /\ [](~config.test_mode =>
             /\ pagesLoaded <= Len(site)
             /\ mainpc = "links_load" => curr = pagesLoaded + 1)
    /\ [][(~config.test_mode /\ mainpc = "links_load" /\ mainpc' # mainpc) =>
             /\ pagesLoaded' = pagesLoaded + 1
             /\ mainpc' = "links_top" =>
                    NextPage(curr) # 0 /\ curr' = NextPage(curr)
             /\ NextPage(curr) = 0 => mainpc' = "links_done"]_allVars
    /\ [](~config.test_mode /\ Undisturbed => pagesLoaded = Len(site))
    /\ (~config.test_mode /\ mainpc \in {"links_top", "links_load"})
           ~> (mainpc = "links_done")

\* An uncapped discovery on a listing of three pages has loaded each of
\* them once and left the loop at the third, which has no next-page control.
C33_Witness ==
    /\ ~config.test_mode
    /\ Len(site) = MaxSitePages
    /\ Undisturbed
    /\ pagesLoaded = MaxSitePages
    /\ curr = MaxSitePages
    /\ NextPage(curr) = 0

=============================================================================
